---- MODULE Spec2Model ----
(***************************************************************************)
(* State-machine model of the scaffolding crate's containers and message   *)
(* bus: Uniq (keyed store), TypeMap (type store), ArenaVec (arena vector)  *)
(* and World's message buffer.  Each container has its own specification   *)
(* (SpecUniq, SpecTypeMap, SpecArena, SpecWorld); the variables of the     *)
(* other containers stay at their initial value.                           *)
(***************************************************************************)
EXTENDS Integers, Sequences, FiniteSets, TLC

VARIABLES
    \* ---- World messages (src/scaffolding/src/world.rs)
    world,          \* msg_buffer, msg_handlers and the record of the last call
    w_env,          \* the build: ub_checks (debug assertions) on or off
    \* ---- ArenaVec (src/scaffolding/src/datatypes/arenavec.rs)
    av,             \* the vector: reserved_memory, capacity, len, committed pages, cells
    av_op,          \* the most recent call: its kind, its outcome, len before it
    dr,             \* the Drain iterator over av: progress, len, and what it has yielded
    \* ---- Warehouse (src/scaffolding/src/datatypes/warehouse.rs); its storage is av
    wh,             \* the live WarehouseValues and what the last take handed out
    \* ---- TypeMap (src/scaffolding/src/datatypes/typemap.rs)
    \* ---- World::execute_in_parallel (src/scaffolding/src/multi.rs)
    par,            \* one call: the calling thread's position, the spawned threads,
                    \* their join handles, the world's counter and what was applied
    tm,             \* the map: entries, storage bytes, used_storage, num_entries, ...
    tm_env,         \* the build: debug (overflow checks, debug_assert) and what lies
                    \* behind the storage allocation (slack: the bytes are kept)
    tm_tid,         \* per type: TypeId::of::<T>() as usize
    tm_ins,         \* per type: the value of the most recent insert, 0 before
    tm_dup,         \* whether some type has been inserted more than once
    pl,             \* World::plugins is tm: per plugin type whether add_plugin was
                    \* called for it and how often Plugin::load ran
    tm_dtor,        \* destructors: per type the values handed to insert and the
                    \* destructor runs on a value; runs on bytes that are no value
    \* ---- Uniq (src/scaffolding/src/datatypes/uniq.rs)
    uq_entries,     \* entries: ArenaVec<Option<UniqEntry>>, a function 0..len-1
    uq_data,        \* data: ArenaVec<u8>, one cell per stored value
    uq_used,        \* used_entries
    uq_status,      \* "ok", "panic" (unwrap / unreachable!) or "hang" (idx_of never returns)
    uq_ref,         \* per key: the location the most recent get returned, -1 before
    uq_first,       \* per key: the location the first get returned, -1 before
    uq_shadow,      \* per key: the value the caller last left behind the reference
    uq_ndef,        \* per key: how many times the default factory ran
    uq_last,        \* the most recent get: key, returned location, value read,
                    \* and the location and value an earlier get left for the key
    \* ---- StackVec (src/scaffolding/src/datatypes/stackvec.rs)
    sv              \* the StackVec<T, SIZE>, what was pushed, the last get, and the
                    \* iterator over it: its kind, its progress and what it yielded

uq_vars == <<uq_entries, uq_data, uq_used, uq_status, uq_ref, uq_first,
             uq_shadow, uq_ndef, uq_last>>

tm_vars == <<tm, tm_env, tm_tid, tm_ins, tm_dup, tm_dtor, pl>>

av_vars == <<av, av_op, dr, wh>>

w_vars == <<world, w_env, par>>

sv_vars == <<sv>>

vars == <<uq_vars, tm_vars, av_vars, w_vars, sv_vars>>

\* ------------------------------------------------------------------ bounds
MaxKey == 4          \* keys are 0..MaxKey
MaxVal == 1          \* values written through a reference are 1..MaxVal
MaxInitCap == 2      \* Uniq::with_capacity(cap), cap in 1..MaxInitCap
MaxType == 2         \* types are 0..MaxType
MaxTVal == 2         \* inserted values are 1..MaxTVal
MaxTypeId == 3       \* TypeIds are drawn from 0..MaxTypeId
MaxBuckets == 3      \* TypeMap::new(n, s), n in 0..MaxBuckets
MaxStorage == 4      \* TypeMap::new(n, s), s in 0..MaxStorage
MaxEntries == 4      \* inserts are followed while num_entries is below MaxEntries
MaxInserts == 2      \* values of one type handed to insert before the drop
PageShift == 1       \* the page size is 2^PageShift bytes
MaxReserve == 6      \* reserved_memory arguments are 1..MaxReserve bytes
MaxElemSize == 2     \* size_of::<T>() of the element type is 1..MaxElemSize
MaxElem == 2         \* pushed values are 1..MaxElem
MaxHeld == 2         \* WarehouseValues alive at the same time
MaxMsgType == 1      \* message types are 0..MaxMsgType
MaxFrameType == 2    \* message types sent in the frame-packing check: 0..MaxFrameType
MaxStack == 2          \* the largest SIZE of a StackVec<T, SIZE>
MaxSvLen == 4          \* the most pushes onto a StackVec
MaxMsgVal == 2       \* message values are 1..MaxMsgVal
MaxPending == 3      \* messages are sent while fewer than MaxPending are queued
MaxDepth == 2        \* nested calls made by handlers before the stack overflows
RegStorage == 32     \* storage bytes of the handler table (1_000 in the code)
HeapWindow == 4      \* bytes modelled behind the end of the storage allocation
MaxResizes == 8      \* depth of the grow-and-retry recursion of insert that is followed

Min(a, b) == IF a < b THEN a ELSE b
Max(a, b) == IF a < b THEN b ELSE a

\* ================================================================= TypeMap
Types == 0..MaxType

\* PubTypeId::of::<fn(&mut World, Msg<M>)>(): the handler type of the message
\* type ty, which is also the tag of its frames
TagBase == 100
TagOf(ty) == TagBase + ty
\* mem::size_of::<fn(&mut World, Msg<M>)>()
FnPtrSize == 8

\* mem::size_of::<T>() and mem::align_of::<T>(): u8, u16, u32, u8, ... and
\* the handler types, which are function pointers
TypeSize(t) == IF t >= TagBase THEN FnPtrSize ELSE 2 ^ (t % 3)
TypeAlign(t) == TypeSize(t)
TmVals == 1..MaxTVal

\* A byte of the value v of type t; fresh allocations hold Uninit; Garbage is
\* a byte that some other owner of the memory wrote
ByteOf(t, v) == 10 * (t + 1) + v
Uninit == 0
Garbage == -1
\* NonNull::dangling() of a zero-size allocation, and the addresses alloc() hands out
Dangling == 1
HeapA == 64
HeapB == 128
Alloc(old) == IF old = HeapA THEN HeapB ELSE HeapA
\* usize::MAX: the collision_idx of a search that found no empty bucket
NoBucket == -2

NoTmEntry == [some |-> FALSE, ty |-> 0, ptr |-> 0, slot |-> -1]
TmEntry(t, p) == [some |-> TRUE, ty |-> t, ptr |-> p, slot |-> -1]
TmEmptyEntries(n) == [i \in 0..(n - 1) |-> NoTmEntry]
TmLen(m) == Cardinality(DOMAIN m.entries)

\* TypeMap::new(num_entries, storage_capacity)
TmNew(n, s) ==
    [entries |-> TmEmptyEntries(n),
     mem |-> [i \in 1..(s + HeapWindow) |-> Uninit],
     cap |-> s,
     base |-> IF s > 0 THEN HeapA ELSE Dangling,
     used |-> 0, num |-> 0, status |-> "ok", resized |-> FALSE]

is_full(m) == m.num = TmLen(m) \/ m.used = m.cap

\* TypeMap::align: used_storage rounded up to align_of::<T>()
TmAlign(used, al) == (used + al - 1) - ((used + al - 1) % al)

\* ptr.write(val) at byte offset off: bytes behind the allocation are kept only
\* when the allocator left slack there
TmWrite(m, off, t, v) ==
    [m EXCEPT !.mem = [i \in DOMAIN m.mem |->
        IF i - 1 >= off /\ i - 1 < off + TypeSize(t)
        THEN IF i - 1 < m.cap \/ tm_env.slack THEN ByteOf(t, v) ELSE Garbage
        ELSE m.mem[i]]]

\* *ptr for a T behind the pointer p: the value, or Garbage when the bytes are
\* not the bytes of one value of T
TmRead(m, t, p) ==
    LET off == p - m.base IN
    IF off < 0 \/ off + TypeSize(t) > Len(m.mem) THEN Garbage
    ELSE IF \E v \in TmVals : \A i \in off..(off + TypeSize(t) - 1) : m.mem[i + 1] = ByteOf(t, v)
         THEN CHOOSE v \in TmVals : \A i \in off..(off + TypeSize(t) - 1) : m.mem[i + 1] = ByteOf(t, v)
         ELSE Garbage

\* for (idx, entry) in self.entries.iter().enumerate() { if entry.is_none() ... }
TmFirstNone(e) ==
    IF \E i \in DOMAIN e : ~e[i].some
    THEN CHOOSE i \in DOMAIN e : ~e[i].some /\ \A j \in DOMAIN e : j < i => e[j].some
    ELSE NoBucket

\* while let Some(idx) = last_linked_list_node.collision_slot { ... .unwrap() }
RECURSIVE ChainEnd(_, _, _)
ChainEnd(e, idx, fuel) ==
    IF idx \notin DOMAIN e THEN [st |-> "ub", idx |-> idx]
    ELSE IF ~e[idx].some THEN [st |-> "panic", idx |-> idx]
    ELSE IF e[idx].slot = -1 THEN [st |-> "ok", idx |-> idx]
    ELSE IF fuel = 0 THEN [st |-> "hang", idx |-> idx]
    ELSE ChainEnd(e, e[idx].slot, fuel - 1)

\* A collision branch that hangs the new bucket on the home bucket itself,
\* whatever that bucket was linked to
TmLinkAtHome(m, idx, entry) ==
    LET collision_idx == TmFirstNone(m.entries) IN
    IF collision_idx = NoBucket THEN [m EXCEPT !.status = "panic"]
    ELSE [m EXCEPT !.entries = [m.entries EXCEPT ![idx].slot = collision_idx,
                                                 ![collision_idx] = entry]]

\* The collision branch shared by insert and copy_entry: find an empty bucket,
\* link it to the end of the chain of bucket idx, put the entry there
TmLink(m, idx, entry) ==
    LET collision_idx == TmFirstNone(m.entries)
        last == ChainEnd(m.entries, idx, TmLen(m))
    IN  IF collision_idx = NoBucket /\ tm_env.debug THEN [m EXCEPT !.status = "panic"]
        ELSE IF last.st # "ok" THEN [m EXCEPT !.status = last.st]
        ELSE IF collision_idx = NoBucket THEN [m EXCEPT !.status = "ub"]
        ELSE [m EXCEPT !.entries = [m.entries EXCEPT ![last.idx].slot = collision_idx,
                                                     ![collision_idx] = entry]]

\* TypeMap::copy_entry
copy_entry(m, entry) ==
    LET ent == [entry EXCEPT !.slot = -1]
        idx == tm_tid[ent.ty] % TmLen(m)
    IN  IF m.entries[idx].some THEN TmLink(m, idx, ent)
        ELSE [m EXCEPT !.entries[idx] = ent]

\* A resize whose copied entries keep pointing into the old storage
RECURSIVE CopyEntriesStale(_, _, _, _)
CopyEntriesStale(m, old, oldbase, i) ==
    IF i >= Cardinality(DOMAIN old) \/ m.status # "ok" THEN m
    ELSE IF ~old[i].some THEN CopyEntriesStale(m, old, oldbase, i + 1)
    ELSE CopyEntriesStale(copy_entry(m, old[i]), old, oldbase, i + 1)

\* for entry in old_entries { if let Some(entry) = entry { self.copy_entry(..) } }
\* with the entry's pointer moved to the same offset of the new storage
RECURSIVE CopyEntries(_, _, _, _)
CopyEntries(m, old, oldbase, i) ==
    IF i >= Cardinality(DOMAIN old) \/ m.status # "ok" THEN m
    ELSE IF ~old[i].some THEN CopyEntries(m, old, oldbase, i + 1)
    ELSE CopyEntries(
            copy_entry(m, [old[i] EXCEPT !.ptr = m.base + (old[i].ptr - oldbase)]),
            old, oldbase, i + 1)

\* TypeMap::resize
TmResize(m, new_entry_capacity, new_storage_capacity) ==
    IF new_entry_capacity < m.num \/ new_storage_capacity < m.used
    THEN [m EXCEPT !.status = "panic"]
    ELSE LET fresh ==
                [m EXCEPT
                    !.entries = TmEmptyEntries(new_entry_capacity),
                    !.mem = [i \in 1..(new_storage_capacity + HeapWindow) |->
                                IF i <= m.used /\ i <= Len(m.mem) THEN m.mem[i] ELSE Uninit],
                    !.cap = new_storage_capacity,
                    !.base = Alloc(m.base),
                    !.resized = TRUE]
         IN  CopyEntries(fresh, m.entries, m.base, 0)

\* The empty-bucket and collision branches of insert: align, write, new entry
TmPlace(m, idx, t, v, collides) ==
    LET off == TmAlign(m.used, TypeAlign(t))
        entry == TmEntry(t, m.base + off)
        linked == IF collides THEN TmLink(m, idx, entry)
                  ELSE [m EXCEPT !.entries[idx] = entry]
    IN  IF linked.status # "ok" THEN linked
        ELSE [TmWrite(linked, off, t, v) EXCEPT !.num = m.num + 1,
                                                !.used = off + TypeSize(t)]

\* TypeMap::insert
RECURSIVE TmInsert(_, _, _, _)
TmInsert(m, t, v, fuel) ==
    LET underflow == ~is_full(m) /\ m.used > m.cap   \* unused_storage() wraps
    IN
    IF m.status # "ok" THEN m
    ELSE IF underflow /\ tm_env.debug THEN [m EXCEPT !.status = "panic"]
    ELSE IF is_full(m) \/ (~underflow /\ m.cap - m.used < TypeSize(t))
    THEN IF fuel = 0 THEN [m EXCEPT !.status = "hang"]
         ELSE TmInsert(TmResize(m, IF m.num = 0 THEN 1 ELSE m.num * 2,
                                   IF m.cap = 0 THEN 1 ELSE m.cap * 2),
                       t, v, fuel - 1)
    ELSE LET idx == tm_tid[t] % TmLen(m) IN
         IF ~m.entries[idx].some THEN TmPlace(m, idx, t, v, FALSE)
         ELSE IF m.entries[idx].ty = t
              THEN TmWrite(m, m.entries[idx].ptr - m.base, t, v)
              ELSE TmPlace(m, idx, t, v, TRUE)

\* The chain walk of _get
RECURSIVE GetWalk(_, _, _, _)
GetWalk(e, node, t, fuel) ==
    IF e[node].slot = -1
    THEN IF e[node].ty = t THEN [res |-> "Some", ptr |-> e[node].ptr]
         ELSE [res |-> "None", ptr |-> 0]
    ELSE LET nxt == e[node].slot IN
         IF nxt \notin DOMAIN e THEN [res |-> "Ub", ptr |-> 0]
         ELSE IF ~e[nxt].some THEN [res |-> "Panic", ptr |-> 0]
         ELSE IF e[nxt].ty = t THEN [res |-> "Some", ptr |-> e[nxt].ptr]
         ELSE IF fuel = 0 THEN [res |-> "Hang", ptr |-> 0]
         ELSE GetWalk(e, nxt, t, fuel - 1)

\* TypeMap::_get: "Panic" is the remainder by a bucket count of zero
TmGet(m, t) ==
    IF TmLen(m) = 0 THEN [res |-> "Panic", ptr |-> 0]
    ELSE LET idx == tm_tid[t] % TmLen(m) IN
         IF ~m.entries[idx].some THEN [res |-> "None", ptr |-> 0]
         ELSE IF m.entries[idx].ty = t THEN [res |-> "Some", ptr |-> m.entries[idx].ptr]
         ELSE GetWalk(m.entries, idx, t, TmLen(m))

\* The buckets a walk along the collision_slot links visits from bucket idx,
\* in order: it ends at a bucket without a link, at a link that leaves the
\* bucket array or points at an empty bucket, or when the fuel is used up
RECURSIVE TmChain(_, _, _)
TmChain(e, idx, fuel) ==
    IF idx \notin DOMAIN e THEN <<>>
    ELSE IF ~e[idx].some THEN <<>>
    ELSE IF e[idx].slot = -1 \/ fuel = 0 THEN <<idx>>
    ELSE <<idx>> \o TmChain(e, e[idx].slot, fuel - 1)

\* get::<T>() as the caller sees it: the value behind the reference, 0 for None
TmGetVal(m, t) ==
    LET g == TmGet(m, t) IN
    IF g.res = "Some" THEN TmRead(m, t, g.ptr) ELSE IF g.res = "None" THEN 0 ELSE Garbage

TmHas(m, t) == \E i \in DOMAIN m.entries : m.entries[i].some /\ m.entries[i].ty = t
TmCount(m, t) == Cardinality({i \in DOMAIN m.entries : m.entries[i].some /\ m.entries[i].ty = t})
TmAtHome(m, t) ==
    /\ TmLen(m) > 0
    /\ m.entries[tm_tid[t] % TmLen(m)].some
    /\ m.entries[tm_tid[t] % TmLen(m)].ty = t

\* No value has been handed to the map and no destructor has run
DtorIdle == [ins |-> [t \in Types |-> 0], run |-> [t \in Types |-> 0], bad |-> 0]

\* One run of a destructor of type t on what *ptr reads as
DtorRun(d, t, val) ==
    IF val = Garbage THEN [d EXCEPT !.bad = @ + 1]
    ELSE [d EXCEPT !.run[t] = @ + 1]

\* The overwrite branch of insert: ptr::drop_in_place(ptr) on the old value
\* of the home bucket, reached through the same growth as the insert; 0 when
\* the insert takes another branch
RECURSIVE TmOverwritten(_, _, _)
TmOverwritten(m, t, fuel) ==
    LET underflow == ~is_full(m) /\ m.used > m.cap
    IN
    IF m.status # "ok" THEN 0
    ELSE IF underflow /\ tm_env.debug THEN 0
    ELSE IF is_full(m) \/ (~underflow /\ m.cap - m.used < TypeSize(t))
    THEN IF fuel = 0 THEN 0
         ELSE TmOverwritten(TmResize(m, IF m.num = 0 THEN 1 ELSE m.num * 2,
                                       IF m.cap = 0 THEN 1 ELSE m.cap * 2),
                            t, fuel - 1)
    ELSE LET idx == tm_tid[t] % TmLen(m) IN
         IF m.entries[idx].some /\ m.entries[idx].ty = t
         THEN TmRead(m, t, m.entries[idx].ptr)
         ELSE 0

\* impl Drop for TypeMap: (entry.drop)(entry.ptr) for every Some entry, in
\* bucket order
RECURSIVE TmDropEntries(_, _, _)
TmDropEntries(m, d, i) ==
    IF i >= TmLen(m) THEN d
    ELSE IF ~m.entries[i].some THEN TmDropEntries(m, d, i + 1)
    ELSE TmDropEntries(m, DtorRun(d, m.entries[i].ty,
                                  TmRead(m, m.entries[i].ty, m.entries[i].ptr)), i + 1)

\* No add_plugin call has been made
PlIdle == [added |-> [t \in Types |-> FALSE], loads |-> [t \in Types |-> 0]]

TmIdle ==
    /\ tm = TmNew(0, 0)
    /\ tm_env = [debug |-> FALSE, slack |-> TRUE]
    /\ tm_tid = [t \in Types |-> t]
    /\ tm_ins = [t \in Types |-> 0]
    /\ tm_dup = FALSE
    /\ tm_dtor = DtorIdle
    /\ pl = PlIdle

TmInit ==
    /\ \E n \in 0..MaxBuckets, s \in 0..MaxStorage : tm = TmNew(n, s)
    /\ \E d \in BOOLEAN, k \in BOOLEAN : tm_env = [debug |-> d, slack |-> k]
    /\ \E f \in [Types -> 0..MaxTypeId] :
            /\ \A a, b \in Types : a # b => f[a] # f[b]
            /\ tm_tid = f
    /\ tm_ins = [t \in Types |-> 0]
    /\ tm_dup = FALSE
    /\ tm_dtor = DtorIdle
    /\ pl = PlIdle

\* insert::<T>(v)
TypeMapInsert(t, v) ==
    /\ tm.status = "ok"
    /\ tm.num < MaxEntries
    /\ tm' = TmInsert([tm EXCEPT !.resized = FALSE], t, v, MaxResizes)
    /\ tm_ins' = [tm_ins EXCEPT ![t] = v]
    /\ tm_dup' = (tm_dup \/ tm_ins[t] # 0)
    /\ UNCHANGED <<tm_env, tm_tid, tm_dtor, pl>>

\* get::<T>(), get_mut::<T>() and get_raw(PubTypeId::of::<T>()): the map is
\* left as it is unless the lookup aborts
TypeMapGet(t) ==
    /\ tm.status = "ok"
    /\ LET g == TmGet(tm, t) IN
       tm' = IF g.res \in {"Some", "None"} THEN tm
             ELSE [tm EXCEPT !.status = IF g.res = "Panic" THEN "panic"
                                        ELSE IF g.res = "Hang" THEN "hang" ELSE "ub"]
    /\ UNCHANGED <<tm_env, tm_tid, tm_ins, tm_dup, tm_dtor, pl>>

\* insert::<T>(v) with the destructors it runs accounted for
TypeMapInsertDtor(t, v) ==
    /\ tm.status = "ok"
    /\ tm.num < MaxEntries
    /\ tm_dtor.ins[t] < MaxInserts
    /\ tm' = TmInsert([tm EXCEPT !.resized = FALSE], t, v, MaxResizes)
    /\ tm_ins' = [tm_ins EXCEPT ![t] = v]
    /\ tm_dup' = (tm_dup \/ tm_ins[t] # 0)
    /\ LET old == TmOverwritten(tm, t, MaxResizes)
           d == [tm_dtor EXCEPT !.ins[t] = @ + 1]
       IN  tm_dtor' = IF old = 0 THEN d ELSE DtorRun(d, t, old)
    /\ pl' = pl
    /\ UNCHANGED <<tm_env, tm_tid>>

\* drop(map)
TypeMapDrop ==
    /\ tm.status = "ok"
    /\ tm' = [tm EXCEPT !.status = "dropped"]
    /\ tm_dtor' = TmDropEntries(tm, tm_dtor, 0)
    /\ pl' = pl
    /\ UNCHANGED <<tm_env, tm_tid, tm_ins, tm_dup>>

\* TypeMap::clear: the counters are reset, entries and storage are left alone
TmClear(m) == [m EXCEPT !.num = 0, !.used = 0, !.resized = FALSE]

\* clear(), also Reset::reset
TypeMapClear ==
    /\ tm.status = "ok"
    /\ tm' = TmClear(tm)
    /\ tm_ins' = [t \in DOMAIN tm_ins |-> 0]
    /\ UNCHANGED <<tm_env, tm_tid, tm_dup, tm_dtor, pl>>

\* ==================================================================== Uniq
UniqKeys == 0..MaxKey
UniqVals == 0..MaxVal

\* Option<UniqEntry>: some = FALSE is None; slot = -1 is collision_slot: None
NoEntry == [some |-> FALSE, key |-> 0, val |-> 0, slot |-> -1]
UniqEntry(k, v, s) == [some |-> TRUE, key |-> k, val |-> v, slot |-> s]

EntriesLen(e) == Cardinality(DOMAIN e)
EmptyEntries(n) == [i \in 0..(n - 1) |-> NoEntry]

\* The loop of idx_of from bucket idx.  A walk longer than the table revisits
\* a bucket, and the loop of the code then never ends ("Hang").
RECURSIVE IdxWalk(_, _, _, _)
IdxWalk(e, key, idx, fuel) ==
    IF ~e[idx].some THEN [kind |-> "None", idx |-> idx]
    ELSE IF e[idx].key = key THEN [kind |-> "Exact", idx |-> idx]
    ELSE IF e[idx].slot = -1 THEN [kind |-> "Collision", idx |-> idx]
    ELSE IF fuel = 0 THEN [kind |-> "Hang", idx |-> idx]
    ELSE IdxWalk(e, key, e[idx].slot, fuel - 1)

idx_of(e, key) == IdxWalk(e, key, key % EntriesLen(e), EntriesLen(e))

\* entries.iter().enumerate().find(|(_, val)| val.is_none()): -1 when unwrap() fails
FirstNone(e) ==
    IF \E i \in DOMAIN e : ~e[i].some
    THEN CHOOSE i \in DOMAIN e : ~e[i].some /\ \A j \in DOMAIN e : j < i => e[j].some
    ELSE -1

\* A rehash that stores the values anew: every entry keeps its bucket and
\* loses the location it recorded
RehashRelocate(old, i, new) ==
    [st |-> "ok",
     ent |-> [j \in DOMAIN new |->
                IF j \in DOMAIN old /\ old[j].some
                THEN [old[j] EXCEPT !.val = 0, !.slot = -1] ELSE new[j]]]

\* The for_each of next_idx over the old table, in index order: each old entry
\* is copied as it is (collision_slot included) into the new table.
RECURSIVE Rehash(_, _, _)
Rehash(old, i, new) ==
    IF i >= EntriesLen(old) THEN [st |-> "ok", ent |-> new]
    ELSE IF ~old[i].some THEN Rehash(old, i + 1, new)
    ELSE LET r == idx_of(new, old[i].key) IN
         CASE r.kind = "None" ->
                Rehash(old, i + 1, [new EXCEPT ![r.idx] = old[i]])
           [] r.kind = "Collision" ->
                \* self.next_idx(): used_entries is below the doubled length
                LET entry_idx == FirstNone(new) IN
                IF entry_idx = -1 THEN [st |-> "panic", ent |-> new]
                ELSE Rehash(old, i + 1,
                            [new EXCEPT ![entry_idx] = old[i],
                                        ![r.idx].slot = entry_idx])
           [] r.kind = "Exact" -> [st |-> "panic", ent |-> new]
           [] OTHER -> [st |-> "hang", ent |-> new]

\* next_idx: grow and rehash when every bucket is used, then the first empty bucket
next_idx(e, used) ==
    LET grown == IF used = EntriesLen(e)
                 THEN Rehash(e, 0, EmptyEntries(EntriesLen(e) * 2))
                 ELSE [st |-> "ok", ent |-> e]
        idx == FirstNone(grown.ent)
    IN  IF grown.st # "ok" THEN [st |-> grown.st, ent |-> grown.ent, idx |-> -1]
        ELSE IF idx = -1 THEN [st |-> "panic", ent |-> grown.ent, idx |-> -1]
        ELSE [st |-> "ok", ent |-> grown.ent, idx |-> idx]

\* Uniq::insert: the value is appended to data, the bucket points at it
UniqInsert(e, idx, key, loc) == [e EXCEPT ![idx] = UniqEntry(key, loc, -1)]

UqStart(cap) ==
    /\ uq_entries = EmptyEntries(cap)
    /\ uq_data = <<>>
    /\ uq_used = 0
    /\ uq_status = "ok"
    /\ uq_ref = [k \in UniqKeys |-> -1]
    /\ uq_first = [k \in UniqKeys |-> -1]
    /\ uq_shadow = [k \in UniqKeys |-> 0]
    /\ uq_ndef = [k \in UniqKeys |-> 0]
    /\ uq_last = [key |-> -1, loc |-> -1, val |-> 0, first |-> -1, expect |-> 0]

UqIdle == UqStart(0)

UqInit == \E cap \in 1..MaxInitCap : UqStart(cap)

\* What a get that returns leaves behind: the reference and the value read
UniqReturn(key, loc, data, fresh) ==
    /\ uq_last' = [key |-> key, loc |-> loc, val |-> data[loc + 1],
                    first |-> IF uq_first[key] = -1 THEN loc ELSE uq_first[key],
                    expect |-> IF uq_first[key] = -1 THEN 0 ELSE uq_shadow[key]]
    /\ uq_ref' = [uq_ref EXCEPT ![key] = loc]
    /\ uq_first' = IF uq_first[key] = -1 THEN [uq_first EXCEPT ![key] = loc] ELSE uq_first
    /\ uq_ndef' = IF fresh THEN [uq_ndef EXCEPT ![key] = Min(@ + 1, 2)] ELSE uq_ndef
    /\ uq_shadow' = IF fresh /\ uq_first[key] = -1
                    THEN [uq_shadow EXCEPT ![key] = 0] ELSE uq_shadow

UniqAbort(st, e) ==
    /\ uq_status' = st
    /\ uq_entries' = e
    /\ UNCHANGED <<uq_data, uq_used, uq_ref, uq_first, uq_shadow, uq_ndef, uq_last>>

\* Uniq::get(key, default) with default() = 0
UniqGet(key) ==
    /\ uq_status = "ok"
    /\ LET r == idx_of(uq_entries, key)
           start_idx == Len(uq_data)
       IN CASE r.kind = "Exact" ->
                 /\ UniqReturn(key, uq_entries[r.idx].val, uq_data, FALSE)
                 /\ UNCHANGED <<uq_entries, uq_data, uq_used, uq_status>>
            [] r.kind = "None" ->
                 /\ uq_data' = Append(uq_data, 0)
                 /\ uq_entries' = UniqInsert(uq_entries, r.idx, key, start_idx)
                 /\ uq_used' = uq_used + 1
                 /\ UniqReturn(key, start_idx, uq_data', TRUE)
                 /\ UNCHANGED uq_status
            [] r.kind = "Collision" ->
                 LET n == next_idx(uq_entries, uq_used) IN
                 IF n.st # "ok" THEN UniqAbort(n.st, n.ent)
                 ELSE LET ins == UniqInsert(n.ent, n.idx, key, start_idx) IN
                      \* entries[last_idx].as_mut().unwrap()
                      IF ~ins[r.idx].some
                      THEN /\ uq_status' = "panic"
                           /\ uq_entries' = ins
                           /\ uq_data' = Append(uq_data, 0)
                           /\ uq_used' = uq_used + 1
                           /\ UNCHANGED <<uq_ref, uq_first, uq_shadow, uq_ndef, uq_last>>
                      ELSE /\ uq_data' = Append(uq_data, 0)
                           /\ uq_entries' = [ins EXCEPT ![r.idx].slot = n.idx]
                           /\ uq_used' = uq_used + 1
                           /\ UniqReturn(key, start_idx, uq_data', TRUE)
                           /\ UNCHANGED uq_status
            [] OTHER -> UniqAbort("hang", uq_entries)

\* The caller writes v through the reference its last get for key returned
UniqWrite(key, v) ==
    /\ uq_status = "ok"
    /\ uq_ref[key] # -1
    /\ uq_data' = [uq_data EXCEPT ![uq_ref[key] + 1] = v]
    /\ uq_shadow' = [uq_shadow EXCEPT ![key] = v]
    /\ UNCHANGED <<uq_entries, uq_used, uq_status, uq_ref, uq_first, uq_ndef, uq_last>>

\* ================================================================ ArenaVec
PageSize == 2 ^ PageShift
ElemSizes == 1..MaxElemSize
ElemVals == 1..MaxElem

\* utils::align(value, to) for a power of two: value + (-value & (to - 1))
align(value, to) == value + ((to - (value % to)) % to)
page_align(num) == align(num, PageSize)

\* The pages of the reservation that an access to bytes from..to-1 touches
PagesOf(from, to) == {p \in 0..(to \div PageSize) : p * PageSize < to /\ (p + 1) * PageSize > from}

\* ArenaVec::with_reserved_memory_and_capacity(reserved_memory, capacity) for
\* an element type of size bytes: Os::reserve maps the range PROT_NONE, and
\* nothing is committed
\* The address Os::reserve (mmap) returns: a multiple of the page size
MmapBase == 4096

AvNew(reserved_memory, capacity, size) ==
    [buffer |-> MmapBase,
     reserved |-> page_align(reserved_memory),
     capacity |-> capacity,
     len |-> 0,
     size |-> size,
     pages |-> {},
     mem |-> <<>>,
     status |-> "ok"]

AvCommitted(a) == PageSize * Cardinality(a.pages)
AvReservedPages(a) == 0..((a.reserved \div PageSize) - 1)

\* Os::commit(ptr, amount): mprotect of the pages of [at, at + amount); it
\* fails and changes nothing when ptr is not page-aligned, and it commits
\* nothing outside the reservation
OsCommit(a, at, amount) ==
    IF at % PageSize # 0 \/ amount = 0 THEN a
    ELSE [a EXCEPT !.pages = a.pages \cup (PagesOf(at, at + amount) \cap AvReservedPages(a))]

\* The growth step shared by ensure_capacity and try_ensure_capacity:
\* "grown" is the vector after the commit, "fits" is FALSE where the code
\* panics or returns Err(OutOfMemoryAddresses)
AvGrow(a, capacity) ==
    IF capacity > a.capacity
    THEN LET used_memory == a.size * a.len
             growth == IF used_memory = 0 THEN a.size
                       ELSE IF used_memory * 2 < a.reserved THEN used_memory
                       ELSE a.reserved - used_memory
             growth_amount == page_align(growth)
         IN  IF used_memory + growth_amount > a.reserved
             THEN [fits |-> FALSE, grown |-> a]
             ELSE [fits |-> TRUE,
                   grown |-> [OsCommit(a, a.capacity, growth_amount)
                                EXCEPT !.capacity = a.capacity + growth_amount]]
    ELSE [fits |-> TRUE, grown |-> a]

\* ArenaVec::ensure_capacity
ensure_capacity(a, capacity) ==
    LET g == AvGrow(a, capacity) IN
    IF g.fits THEN g.grown ELSE [a EXCEPT !.status = "panic"]

\* ArenaVec::try_ensure_capacity: status "err" stands for the Err returned
try_ensure_capacity(a, capacity) ==
    LET g == AvGrow(a, capacity) IN
    IF g.fits THEN g.grown ELSE [a EXCEPT !.status = "err"]

\* A push that moves the buffer when it stores the element, as a Vec does
AvWriteBackMoved(a, val, lucky) ==
    LET from == a.len * a.size
        to == from + a.size
    IN  IF to > a.reserved \/ ~(PagesOf(from, to) \subseteq a.pages)
        THEN [a EXCEPT !.status = "segv"]
        ELSE [a EXCEPT !.len = a.len + 1,
                       !.buffer = a.buffer + a.reserved,
                       !.mem = IF a.len < Len(a.mem) THEN [a.mem EXCEPT ![a.len + 1] = val]
                               ELSE Append(a.mem, val)]

\* self.buffer.add(self.len).write(val); len += 1.  A write to a page of the
\* reservation that is not committed is a SIGSEGV; a write behind the
\* reservation is a SIGSEGV or lands in memory of someone else (lucky).
AvWriteBack(a, val, lucky) ==
    LET from == a.len * a.size
        to == from + a.size
    IN  IF to > a.reserved
        THEN IF lucky THEN [a EXCEPT !.status = "oob", !.len = a.len + 1]
             ELSE [a EXCEPT !.status = "segv"]
        ELSE IF ~(PagesOf(from, to) \subseteq a.pages) THEN [a EXCEPT !.status = "segv"]
        ELSE [a EXCEPT !.len = a.len + 1,
                       !.mem = IF a.len < Len(a.mem) THEN [a.mem EXCEPT ![a.len + 1] = val]
                               ELSE Append(a.mem, val)]

\* ArenaVec::push
AvPushOp(a, val, lucky) ==
    LET e == ensure_capacity(a, a.len + 1) IN
    IF e.status # "ok" THEN e ELSE AvWriteBack(e, val, lucky)

\* ArenaVec::try_push
AvTryPushOp(a, val, lucky) ==
    LET e == try_ensure_capacity(a, a.len + 1) IN
    IF e.status # "ok" THEN e ELSE AvWriteBack(e, val, lucky)

\* A remove that only forgets the last slot, without moving the elements down
AvRemoveNoShift(a, idx) ==
    IF idx < a.len THEN [a EXCEPT !.len = a.len - 1] ELSE a

\* ArenaVec::remove: ptr::copy(ptr.add(1), ptr, len - idx - 1); len -= 1
AvRemoveOp(a, idx) ==
    IF idx < a.len
    THEN [a EXCEPT !.len = a.len - 1,
                   !.mem = [i \in DOMAIN a.mem |->
                              IF i - 1 >= idx /\ i - 1 < a.len - 1 THEN a.mem[i + 1]
                              ELSE a.mem[i]]]
    ELSE a

\* ArenaVec::clear
AvClearOp(a) == [a EXCEPT !.len = 0]

\* ArenaVec::shrink_to
AvShrinkOp(a, min_capacity) ==
    [a EXCEPT !.capacity = Min(a.capacity, Max(min_capacity, a.len))]

\* ArenaVec::get: the element behind buffer.add(idx), or None
None == 0
AvGet(a, idx) == IF idx < a.len THEN a.mem[idx + 1] ELSE None

\* The address of element idx: self.buffer.add(idx)
AvAddr(a, idx) == a.buffer + idx * a.size

\* What ArenaVec::remove returns: ptr.read() of the element, or None
AvRemoved(a, idx) == IF idx < a.len THEN a.mem[idx + 1] ELSE None

AvNoOp == [kind |-> "none", res |-> "ok", len0 |-> 0, full |-> FALSE, val |-> None, ret |-> None]
AvOp(kind, a0, a1, val, ret) ==
    [kind |-> kind,
     val |-> val,
     ret |-> ret,
     res |-> IF a1.status = "ok" /\ a1.len = a0.len THEN "none" ELSE a1.status,
     len0 |-> a0.len,
     full |-> (a0.len + 1) * a0.size > a0.reserved]

\* Warehouse: no WarehouseValue is alive, nothing was handed out
WhIdle == [held |-> 0, ret |-> None]

\* No Drain exists
DrIdle == [active |-> FALSE, progress |-> 0, len |-> 0, out |-> <<>>, former |-> <<>>]

AvIdle ==
    /\ av = AvNew(1, 0, 1)
    /\ av_op = AvNoOp
    /\ dr = DrIdle
    /\ wh = WhIdle

AvInit ==
    /\ \E r \in 1..MaxReserve, size \in ElemSizes :
         \E c \in 0..r : av = AvNew(r, c, size)
    /\ av_op = AvNoOp
    /\ dr = DrIdle
    /\ wh = WhIdle

\* A try_push that returned Err leaves the vector usable
AvSettle(a) == IF a.status = "err" THEN [a EXCEPT !.status = "ok"] ELSE a

ArenaPush(val) ==
    /\ av.status = "ok"
    /\ \E lucky \in BOOLEAN :
         /\ av' = AvPushOp(av, val, lucky)
         /\ av_op' = AvOp("push", av, av', val, None)

ArenaTryPush(val) ==
    /\ av.status = "ok"
    /\ \E lucky \in BOOLEAN :
         LET r == AvTryPushOp(av, val, lucky) IN
         /\ av' = AvSettle(r)
         /\ av_op' = AvOp("try_push", av, r, val, None)

ArenaReserve(additional) ==
    /\ av.status = "ok"
    /\ av' = ensure_capacity(av, av.len + additional)
    /\ av_op' = AvOp("reserve", av, av', None, None)

ArenaRemove(idx) ==
    /\ av.status = "ok"
    /\ av' = AvRemoveOp(av, idx)
    /\ av_op' = AvOp("remove", av, av', None, AvRemoved(av, idx))

ArenaClear ==
    /\ av.status = "ok"
    /\ av' = AvClearOp(av)
    /\ av_op' = AvOp("clear", av, av', None, None)

ArenaShrinkTo(min_capacity) ==
    /\ av.status = "ok"
    /\ av' = AvShrinkOp(av, min_capacity)
    /\ av_op' = AvOp("shrink_to", av, av', None, None)

\* ptr.read() of the element slot idx, whether or not idx < len: a slot that
\* was written holds what was written last, a committed slot that never was
\* holds the zero bytes of a fresh page (0), a slot on a page that is not
\* committed is a SIGSEGV, and a slot behind the reservation is a SIGSEGV or
\* whatever lies there (junk)
AvReadAt(a, idx, lucky, junk) ==
    LET from == idx * a.size
        to == from + a.size
    IN  IF to > a.reserved
        THEN IF lucky THEN [v |-> a, ret |-> junk]
             ELSE [v |-> [a EXCEPT !.status = "segv"], ret |-> None]
        ELSE IF ~(PagesOf(from, to) \subseteq a.pages)
             THEN [v |-> [a EXCEPT !.status = "segv"], ret |-> None]
        ELSE [v |-> a, ret |-> IF idx < Len(a.mem) THEN a.mem[idx + 1] ELSE 0]

\* ArenaVec::pop: len -= 1; as_mut_ptr().add(self.len() + 1).read()
AvPopOp(a, lucky, junk) ==
    IF a.len = 0 THEN [v |-> a, ret |-> None]
    ELSE LET a1 == [a EXCEPT !.len = a.len - 1]
         IN  AvReadAt(a1, a1.len + 1, lucky, junk)

\* ArenaVec::swap_remove
AvSwapRemoveOp(a, index, lucky, junk) ==
    IF index >= a.len THEN [v |-> [a EXCEPT !.status = "panic"], ret |-> None]
    ELSE IF index = a.len - 1 THEN AvPopOp(a, lucky, junk)
    ELSE [v |-> [a EXCEPT !.mem[index + 1] = a.mem[a.len], !.len = a.len - 1],
          ret |-> a.mem[index + 1]]

\* The tail of insert and try_insert for idx < len, after the capacity check:
\* src_ptr.copy_to(src_ptr.add(1), len - idx); *src_ptr = element.  The copy
\* writes the slots idx + 1 .. len; len is left as it was.
AvShiftIn(a, idx, element, lucky) ==
    LET from == (idx + 1) * a.size
        to == (a.len + 1) * a.size
    IN  IF to > a.reserved
        THEN [a EXCEPT !.status = IF lucky THEN "oob" ELSE "segv"]
        ELSE IF ~(PagesOf(from, to) \subseteq a.pages) THEN [a EXCEPT !.status = "segv"]
        ELSE [a EXCEPT !.mem = [i \in 1..Max(Len(a.mem), a.len + 1) |->
                                  IF i = idx + 1 THEN element
                                  ELSE IF i > idx + 1 /\ i <= a.len + 1 THEN a.mem[i - 1]
                                  ELSE a.mem[i]]]

\* ArenaVec::insert
AvInsertOp(a, idx, element, lucky) ==
    IF idx = a.len THEN AvPushOp(a, element, lucky)
    ELSE IF idx > a.len THEN [a EXCEPT !.status = "panic"]
    ELSE LET e == ensure_capacity(a, a.len + 1) IN
         IF e.status # "ok" THEN e ELSE AvShiftIn(e, idx, element, lucky)

\* ArenaVec::try_insert: status "index_err" stands for Err(IndexOutOfBounds)
AvTryInsertOp(a, idx, element, lucky) ==
    IF idx = a.len THEN AvTryPushOp(a, element, lucky)
    ELSE IF idx > a.len THEN [a EXCEPT !.status = "index_err"]
    ELSE LET e == try_ensure_capacity(a, a.len + 1) IN
         IF e.status # "ok" THEN e ELSE AvShiftIn(e, idx, element, lucky)

\* A try_insert that returned Err leaves the vector usable
AvSettleErr(a) == IF a.status \in {"err", "index_err"} THEN [a EXCEPT !.status = "ok"] ELSE a

ArenaPop ==
    /\ av.status = "ok"
    /\ \E lucky \in BOOLEAN, junk \in 0..MaxElem :
         LET r == AvPopOp(av, lucky, junk) IN
         /\ av' = r.v
         /\ av_op' = AvOp("pop", av, av', None, r.ret)

ArenaSwapRemove(index) ==
    /\ av.status = "ok"
    /\ \E lucky \in BOOLEAN, junk \in 0..MaxElem :
         LET r == AvSwapRemoveOp(av, index, lucky, junk) IN
         /\ av' = r.v
         /\ av_op' = AvOp("swap_remove", av, av', None, r.ret)

ArenaInsert(idx, element) ==
    /\ av.status = "ok"
    /\ \E lucky \in BOOLEAN :
         /\ av' = AvInsertOp(av, idx, element, lucky)
         /\ av_op' = AvOp("insert", av, av', element, None)

ArenaTryInsert(idx, element) ==
    /\ av.status = "ok"
    /\ \E lucky \in BOOLEAN :
         LET r == AvTryInsertOp(av, idx, element, lucky) IN
         /\ av' = AvSettleErr(r)
         /\ av_op' = AvOp("try_insert", av, r, element, None)

\* Os::decommit(ptr, amount): mprotect(PROT_NONE) of the pages of
\* [at, at + amount)
OsDecommit(a, at, amount) ==
    IF at % PageSize # 0 \/ amount = 0 THEN a
    ELSE [a EXCEPT !.pages = a.pages \ PagesOf(at, at + amount)]

\* impl Drop for ArenaVec, first call: Os::decommit(buffer, self.capacity)
ArenaDropDecommit ==
    /\ av.status = "ok"
    /\ av' = [OsDecommit(av, 0, av.capacity) EXCEPT !.status = "decommitted"]
    /\ av_op' = AvOp("drop", av, av, None, None)

\* impl Drop for ArenaVec, second call: Os::dereserve(buffer, reserved_memory),
\* the munmap of the whole range
ArenaDropDereserve ==
    /\ av.status = "decommitted"
    /\ av' = [av EXCEPT !.status = "dropped", !.pages = {}]
    /\ av_op' = AvOp("drop", av, av, None, None)

\* ==================================================================== Drain
\* ArenaVec::drain: Drain { arena_vec: self, progress: 0, len: self.len }.
\* "former" keeps the elements the vector held at the call, "out" what next
\* has returned so far.
ArenaDrain ==
    /\ av.status = "ok"
    /\ ~dr.active
    /\ dr' = [active |-> TRUE, progress |-> 0, len |-> av.len, out |-> <<>>,
              former |-> [i \in 1..av.len |-> AvGet(av, i - 1)]]
    /\ av' = av
    /\ av_op' = AvOp("drain", av, av, None, None)

\* Drain::next: buffer.add(progress).read() while progress < len, else None
DrainNext ==
    /\ dr.active
    /\ IF dr.progress < dr.len
       THEN /\ dr' = [dr EXCEPT !.progress = @ + 1,
                                !.out = Append(@, av.mem[dr.progress + 1])]
            /\ av_op' = AvOp("drain_next", av, av, None, av.mem[dr.progress + 1])
       ELSE /\ dr' = dr
            /\ av_op' = AvOp("drain_next", av, av, None, None)
    /\ av' = av

\* A drop that keeps the elements the iterator did not reach
DrainDropKeepRest(a, d) == [a EXCEPT !.len = d.len - d.progress]

\* impl Drop for Drain: self.arena_vec.len = 0
DrainDropOp(a, d) == [a EXCEPT !.len = 0]

DrainDrop ==
    /\ dr.active
    /\ av' = DrainDropOp(av, dr)
    /\ dr' = [dr EXCEPT !.active = FALSE]
    /\ av_op' = AvOp("drain_drop", av, av, None, None)

\* ================================================================ Warehouse
\* T::default(), and the state Reset::reset leaves an instance in
DefaultInstance == 1
Reset(val) == DefaultInstance

\* storage.remove(0).unwrap_or_default()
WhTaken(a) == IF AvRemoved(a, 0) = None THEN DefaultInstance ELSE AvRemoved(a, 0)

\* Warehouse::take_instance
WarehouseTakeInstance ==
    /\ av.status = "ok"
    /\ av' = AvRemoveOp(av, 0)
    /\ av_op' = AvOp("take_instance", av, av', None, AvRemoved(av, 0))
    /\ wh' = [wh EXCEPT !.ret = WhTaken(av)]

\* Warehouse::get_instance: take_instance wrapped in a WarehouseValue
WarehouseGetInstance ==
    /\ av.status = "ok"
    /\ wh.held < MaxHeld
    /\ av' = AvRemoveOp(av, 0)
    /\ av_op' = AvOp("get_instance", av, av', None, AvRemoved(av, 0))
    /\ wh' = [held |-> wh.held + 1, ret |-> WhTaken(av)]

\* Warehouse::return_instance: val.reset(); storage.push(val)
WhReturn(a, val, lucky) == AvPushOp(a, Reset(val), lucky)

WarehouseReturnInstance(val) ==
    /\ av.status = "ok"
    /\ \E lucky \in BOOLEAN :
         /\ av' = WhReturn(av, val, lucky)
         /\ av_op' = AvOp("return_instance", av, av', val, None)
    /\ wh' = wh

\* impl Drop for WarehouseValue: return_instance(ManuallyDrop::take(val)),
\* val being whatever the holder left behind the DerefMut
WarehouseValueDrop(val) ==
    /\ av.status = "ok"
    /\ wh.held > 0
    /\ \E lucky \in BOOLEAN :
         /\ av' = WhReturn(av, val, lucky)
         /\ av_op' = AvOp("drop_value", av, av', val, None)
    /\ wh' = [wh EXCEPT !.held = @ - 1]

\* Warehouse::with_reserved_memory, Default: the storage is an ArenaVec
\* created by with_reserved_memory
WhInit ==
    /\ \E r \in 1..MaxReserve, size \in ElemSizes : av = AvNew(r, 0, size)
    /\ av_op = AvNoOp
    /\ dr = DrIdle
    /\ wh = WhIdle

\* ================================================ World::execute_in_parallel
\* src/scaffolding/src/multi.rs: the executables of a tuple run on one thread
\* each, over a shared borrow of the World; the world here is the u32 state of
\* multi.rs's test, and a mutation is the test's ThreadCounter.

MaxPar == 3        \* executables in the tuple
MaxCount == 1      \* the counter when the call starts
MinPar == 2
Main == 0

ParIds == 1..MaxPar

NoMutation == [count |-> 0, increment |-> FALSE]

\* Mutation::apply for ThreadCounter
MutApply(m, w) == IF m.increment THEN w + 1 ELSE w

\* Executable::execute: the arguments are built, the function runs and the
\* mutation is applied at once, by the thread that runs it
ExecuteApplied(w, increment) ==
    LET arg == [count |-> w, increment |-> increment]
    IN  [world |-> MutApply(arg, w), mutation |-> NoMutation]

\* Executable::execute_delayed_mutation: from_world_and_env reads the world, the
\* function runs on the argument, build_mutation hands the mutation back
ExecuteDelayedMutation(w, increment) ==
    LET arg == [count |-> w, increment |-> increment]
    IN  [world |-> w, mutation |-> arg]

\* World::new() with add_state(count), before any call
ParIdle ==
    [n |-> 0, pc |-> "idle", idx |-> 0, state |-> 0, status |-> "ok", cur |-> Main,
     th |-> [i \in ParIds |-> "none"],
     handle |-> [i \in ParIds |-> NoMutation],
     muts |-> [i \in ParIds |-> NoMutation],
     applied |-> <<>>,
     before |-> 0,
     msg_buffer |-> [len |-> 0, cells |-> [k \in ParIds |-> 0]],
     states |-> 0,
     acc |-> [i \in ParIds |-> "none"],
     loc |-> [i \in ParIds |-> 0],
     seen |-> [i \in ParIds |-> 0]]

\* world.execute_in_parallel((e1, .., en)) has been entered
ParInit ==
    \E n \in MinPar..MaxPar, c \in 0..MaxCount :
        par = [ParIdle EXCEPT !.n = n, !.pc = "spawn", !.idx = 1, !.state = c,
                              !.before = c]

\* the position after step idx of a phase: the next element of the tuple, or
\* the first element of the next phase
ParAdvance(p, next) ==
    IF p.idx < p.n THEN [p EXCEPT !.idx = p.idx + 1, !.cur = Main]
    ELSE [p EXCEPT !.pc = next, !.idx = 1, !.cur = Main]

\* first $( )* block: thread::spawn for the next executable; spawn panics when
\* the OS gives no thread
ParSpawn(ok) ==
    /\ par.status = "ok" /\ par.pc = "spawn"
    /\ par' = IF ok
              THEN ParAdvance([par EXCEPT !.th[par.idx] = "running"], "join")
              ELSE [par EXCEPT !.status = "panic", !.cur = Main]

\* the closure of thread i: world.execute_delayed_mutation(executable), or a
\* panic inside the executable
ParThread(i, increment, ok) ==
    /\ par.status = "ok" /\ i <= par.n /\ par.th[i] = "running"
    /\ par.acc[i] # "sending"
    /\ LET r == ExecuteDelayedMutation(par.state, increment)
       IN  par' = IF ok
                  THEN [par EXCEPT !.th[i] = "finished", !.handle[i] = r.mutation,
                                   !.state = r.world, !.cur = i]
                  ELSE [par EXCEPT !.th[i] = "panicked", !.cur = i]

\* An executable that takes a MsgSender calls World::send_msg(&self), which
\* pushes onto msg_buffer through the shared borrow. ArenaVec::push reads len
\* for the slot address ...
ParThreadSendBegin(i) ==
    /\ par.status = "ok" /\ i <= par.n /\ par.th[i] = "running"
    /\ par.acc[i] = "none"
    /\ par' = [par EXCEPT !.acc[i] = "sending", !.loc[i] = par.msg_buffer.len,
                          !.cur = i]

\* ... writes the slot and stores len + 1; without synchronisation the build
\* may add to the len it read before or to the len it reads again
ParThreadSendEnd(i, reload) ==
    /\ par.status = "ok" /\ i <= par.n /\ par.th[i] = "running"
    /\ par.acc[i] = "sending"
    /\ par' = [par EXCEPT
                 !.msg_buffer = [len |-> (IF reload THEN @.len ELSE par.loc[i]) + 1,
                                 cells |-> [@.cells EXCEPT ![par.loc[i] + 1] = i]],
                 !.acc[i] = "sent", !.cur = i]

\* An executable that takes Uniqs writes through the &mut T of Uniq::get
ParThreadUniqWrite(i) ==
    /\ par.status = "ok" /\ i <= par.n /\ par.th[i] = "running"
    /\ par.acc[i] = "none"
    /\ par' = [par EXCEPT !.states = i, !.acc[i] = "wrote", !.cur = i]

\* An executable that takes Uniqs reads the value behind Uniq::get
ParThreadUniqRead(i) ==
    /\ par.status = "ok" /\ i <= par.n /\ par.th[i] = "running"
    /\ par.acc[i] = "none"
    /\ par' = [par EXCEPT !.seen[i] = par.states, !.acc[i] = "read", !.cur = i]

\* second $( )* block: handle.join().unwrap() waits for the thread and takes its
\* mutation; unwrap panics when the thread panicked
ParJoin ==
    /\ par.status = "ok" /\ par.pc = "join"
    /\ par.th[par.idx] \in {"finished", "panicked"}
    /\ par' = IF par.th[par.idx] = "finished"
              THEN ParAdvance([par EXCEPT !.th[par.idx] = "joined",
                                          !.muts[par.idx] = par.handle[par.idx]], "apply")
              ELSE [par EXCEPT !.status = "panic", !.cur = Main]

\* third $( )* block: $args.apply(self)
ParApply ==
    /\ par.status = "ok" /\ par.pc = "apply"
    /\ par' = ParAdvance([par EXCEPT !.state = MutApply(par.muts[par.idx], par.state),
                                     !.applied = Append(par.applied, par.idx)], "done")

\* =================================================================== World
\* (src/scaffolding/src/world.rs: the message buffer and its drain)
TagSize == 16            \* mem::size_of::<PubTypeId>()
LenSize == 8             \* mem::size_of::<usize>()
HeaderSize == TagSize + LenSize

MsgTypes == 0..MaxMsgType
\* The message types M: u64, u8, (), u32, u16, u128
MsgSize(ty) == <<8, 1, 0, 4, 2, 16>>[(ty % 6) + 1]
MsgAlign(ty) == Max(1, MsgSize(ty))
MsgVals(ty) == IF MsgSize(ty) = 0 THEN {0} ELSE 1..MaxMsgVal

\* to_ne_bytes on a little-endian target, k bytes
RECURSIVE LeBytes(_, _)
LeBytes(n, k) == IF k = 0 THEN <<>> ELSE <<n % 256>> \o LeBytes(n \div 256, k - 1)

\* ptr.read() of an integer stored as little-endian bytes
RECURSIVE FromLe(_)
FromLe(bytes) == IF bytes = <<>> THEN 0 ELSE bytes[1] + 256 * FromLe(Tail(bytes))

\* The bytes of a value of message type ty
MsgBytes(ty, val) == LeBytes(val, MsgSize(ty))

\* What a handler fn(&mut World, Msg<M>) does with the world it is given:
\* read the payload only, or also send_msg a message of type ty, or send_msg
\* and then apply_msgs, or send_msg_now
NoHandler == [kind |-> "none", ty |-> 0]
Handlers ==
    {[kind |-> "read", ty |-> 0]}
        \cup {[kind |-> k, ty |-> u] : k \in {"send", "send_apply", "send_now"}, u \in MsgTypes}

ReplyVal(u, val) == IF MsgSize(u) = 0 THEN 0 ELSE Max(1, val)

\* World::default(), message part: no handler, empty msg_buffer
WNew ==
    [msg_buffer |-> <<>>,
     msg_handlers |-> [ty \in MsgTypes |-> NoHandler],
     status |-> "ok",
     pending |-> <<>>,
     log |-> <<>>,
     taken |-> <<>>,
     drained |-> <<>>,
     exe |-> <<>>,
     op |-> "none"]

\* A send_msg that stores every payload in eight bytes
send_msg_wide(w, ty, val, draining) ==
    [w EXCEPT !.msg_buffer = @ \o LeBytes(TagOf(ty), TagSize)
                               \o LeBytes(8, LenSize)
                               \o LeBytes(val, 8),
              !.pending = Append(@, [ty |-> ty, val |-> val, late |-> draining])]

\* World::send_msg: [tag][size][payload] appended to msg_buffer
send_msg(w, ty, val, draining) ==
    [w EXCEPT !.msg_buffer = @ \o LeBytes(TagOf(ty), TagSize)
                               \o LeBytes(MsgSize(ty), LenSize)
                               \o MsgBytes(ty, val),
              !.pending = Append(@, [ty |-> ty, val |-> val, late |-> draining])]

\* A typed read through a pointer at byte offset off of the page-aligned
\* buffer is undefined when off is not a multiple of the alignment: a build
\* with ub_checks aborts there, a build without reads the bytes
ReadFaults(off, al) == w_env.ub_checks /\ off % al # 0

RECURSIVE apply_msgs(_, _, _)
RECURSIVE Frames(_, _, _, _, _, _, _)
RECURSIVE RunHandler(_, _, _, _, _, _)
RECURSIVE send_msg_now(_, _, _, _, _)

\* The body of a handler h called with the message (ty, val); entry is the
\* record of the call
RunHandler(w, h, entry, val, draining, fuel) ==
    LET w1 == [w EXCEPT !.log = Append(@, entry)]
        u == h.ty
        reply == ReplyVal(u, val)
    IN  IF h.kind = "read" THEN w1
        ELSE IF h.kind = "send" THEN send_msg(w1, u, reply, draining)
        ELSE IF fuel = 0 THEN [w1 EXCEPT !.status = "overflow"]
        ELSE IF h.kind = "send_apply"
             THEN apply_msgs(send_msg(w1, u, reply, draining), draining, fuel - 1)
        ELSE send_msg_now(w1, u, reply, draining, fuel - 1)

\* World::send_msg_now
send_msg_now(w, ty, val, draining, fuel) ==
    LET h == w.msg_handlers[ty]
        entry == [ty |-> ty, val |-> val, late |-> draining, pass |-> -1]
        w1 == IF h # NoHandler THEN RunHandler(w, h, entry, val, draining, fuel) ELSE w
    IN  IF w1.status # "ok" THEN w1 ELSE apply_msgs(w1, draining, fuel)

\* The frame loop of World::apply_msgs over the swapped-out buffer; sent is
\* the list of messages that were sent into it, i the index of the frame
Frames(w, buffer, sent, off, i, pass, fuel) ==
    IF ReadFaults(off, 8) THEN [w EXCEPT !.status = "abort"]
    ELSE
    LET tag == FromLe(SubSeq(buffer, off + 1, off + TagSize))
        size == FromLe(SubSeq(buffer, off + TagSize + 1, off + HeaderSize))
        ty == tag - TagBase
        h == IF ty \in MsgTypes THEN w.msg_handlers[ty] ELSE NoHandler
        payload == SubSeq(buffer, off + HeaderSize + 1, off + HeaderSize + size)
        entry == [ty |-> ty, val |-> FromLe(payload), late |-> sent[i].late, pass |-> pass]
        w1 == IF h = NoHandler THEN w
              ELSE IF ReadFaults(off + HeaderSize, MsgAlign(ty)) THEN [w EXCEPT !.status = "abort"]
              ELSE RunHandler(w, h, entry, FromLe(payload), TRUE, fuel)
        msg_len == HeaderSize + size
    IN  IF w1.status # "ok" THEN w1
        ELSE IF Len(buffer) - off <= msg_len THEN w1
        ELSE Frames(w1, buffer, sent, off + msg_len, i + 1, pass, fuel)

\* The offsets the frame loop of apply_msgs visits in a buffer, from offset
\* off: read the length prefix, stop when the rest of the buffer is not
\* longer than the frame, else go on behind the frame.  "end" is where the
\* last frame visited ends; a header that does not fit the buffer ends the
\* walk with end = -1.
RECURSIVE FrameWalk(_, _)
FrameWalk(buffer, off) ==
    IF off + HeaderSize > Len(buffer) THEN [starts |-> <<>>, end |-> -1]
    ELSE LET size == FromLe(SubSeq(buffer, off + TagSize + 1, off + HeaderSize))
             msg_len == HeaderSize + size
         IN  IF Len(buffer) - off <= msg_len
             THEN [starts |-> <<off>>, end |-> off + msg_len]
             ELSE LET rest == FrameWalk(buffer, off + msg_len)
                  IN  [starts |-> <<off>> \o rest.starts, end |-> rest.end]

\* World::apply_msgs: swap the buffer for a fresh one and walk the frames.
\* pass numbers the drain passes of one call: 0 is the outermost
apply_msgs(w, draining, fuel) ==
    IF w.msg_buffer = <<>> THEN w
    ELSE LET pass == IF draining THEN MaxDepth - fuel ELSE 0
             w1 == [w EXCEPT !.msg_buffer = <<>>, !.pending = <<>>,
                             !.taken = IF pass = 0 THEN w.pending ELSE @,
                             !.drained = @ \o w.pending]
         IN  Frames(w1, w.msg_buffer, w.pending, 0, 1, pass, fuel)

\* When the outermost call has returned, what is still queued is pending
WReturn(w, op) ==
    [w EXCEPT !.op = op,
              !.pending = [i \in DOMAIN @ |-> [@[i] EXCEPT !.late = FALSE]]]

WStart(w) == [w EXCEPT !.log = <<>>, !.taken = <<>>, !.drained = <<>>, !.exe = <<>>]

WIdle ==
    /\ world = WNew
    /\ w_env = [ub_checks |-> FALSE]
    /\ par = ParIdle

WInit ==
    /\ world = WNew
    /\ \E c \in BOOLEAN : w_env = [ub_checks |-> c]
    /\ par = ParIdle

\* World::add_msg_handler for a message type that has no handler yet
WorldAddMsgHandler(ty, h) ==
    /\ world.status = "ok"
    /\ world.msg_handlers[ty] = NoHandler
    /\ world' = [WStart(world) EXCEPT !.msg_handlers[ty] = h, !.op = "add_msg_handler"]
    /\ UNCHANGED <<w_env, par>>

WorldSendMsg(ty, val) ==
    /\ world.status = "ok"
    /\ Len(world.pending) < MaxPending
    /\ world' = WReturn(send_msg(WStart(world), ty, val, FALSE), "send_msg")
    /\ UNCHANGED <<w_env, par>>

WorldApplyMsgs ==
    /\ world.status = "ok"
    /\ world' = WReturn(apply_msgs(WStart(world), FALSE, MaxDepth), "apply_msgs")
    /\ UNCHANGED <<w_env, par>>

\* An executable that takes a MsgSender and sends msgs, one send_msg each
RECURSIVE Executable(_, _)
Executable(w, msgs) ==
    IF msgs = <<>> THEN w
    ELSE Executable(send_msg(w, msgs[1].ty, msgs[1].val, FALSE), Tail(msgs))

\* The message lists an executable sends: one or two messages
ExeMsg == {[ty |-> ty, val |-> val] : ty \in MsgTypes, val \in 1..MaxMsgVal}
ExeMsgs == {<<a>> : a \in ExeMsg} \cup {<<a, b>> : a \in ExeMsg, b \in ExeMsg}

\* World::execute: executable.execute(self); self.apply_msgs()
WorldExecute(msgs) ==
    /\ world.status = "ok"
    /\ Len(world.pending) + Len(msgs) <= MaxPending
    /\ world' = WReturn(apply_msgs([Executable(WStart(world), msgs) EXCEPT !.exe = msgs],
                                   FALSE, MaxDepth), "execute")
    /\ UNCHANGED <<w_env, par>>

\* World::execute_immut: executable.execute(self)
WorldExecuteImmut(msgs) ==
    /\ world.status = "ok"
    /\ Len(world.pending) + Len(msgs) <= MaxPending
    /\ world' = WReturn([Executable(WStart(world), msgs) EXCEPT !.exe = msgs], "execute_immut")
    /\ UNCHANGED <<w_env, par>>

WorldSendMsgNow(ty, val) ==
    /\ world.status = "ok"
    /\ Len(world.pending) < MaxPending
    /\ world' = WReturn(send_msg_now(WStart(world), ty, val, FALSE, MaxDepth), "send_msg_now")
    /\ UNCHANGED <<w_env, par>>

\* ============================================== World::msg_handlers (TypeMap)
\* The handler table of a World is a TypeMap keyed by the handler type of each
\* message type; its values are the function pointers, numbered as TmVals
HandlerTypes == {TagOf(ty) : ty \in MsgTypes}

\* World::with_capacities(.., msg_handlers): TypeMap::new(msg_handlers, storage)
RegInit ==
    /\ \E n \in 1..MaxBuckets : tm = TmNew(n, RegStorage)
    /\ \E d \in BOOLEAN, k \in BOOLEAN : tm_env = [debug |-> d, slack |-> k]
    /\ \E f \in [HandlerTypes -> 0..MaxTypeId] :
            /\ \A a, b \in HandlerTypes : a # b => f[a] # f[b]
            /\ tm_tid = f
    /\ tm_ins = [t \in HandlerTypes |-> 0]
    /\ tm_dup = FALSE
    /\ tm_dtor = DtorIdle
    /\ pl = PlIdle

\* World::add_msg_handler::<M>(handler): self.msg_handlers.insert(handler)
RegAddMsgHandler(ty, h) == TypeMapInsert(TagOf(ty), h)

\* self.msg_handlers.get_raw(ty) in apply_msgs, get::<fn(..)>() in send_msg_now
RegGetRaw(ty) == TypeMapGet(TagOf(ty))

\* The handler a frame of message type ty is dispatched to: 0 for none
RegHandler(ty) == TmGetVal(tm, TagOf(ty))

\* ============================================================ World::plugins
\* TypeMap::contains::<T>(): whether the home bucket of T is occupied
TmContains(m, t) == m.entries[tm_tid[t] % TmLen(m)].some

\* World::has_plugin::<P>()
HasPlugin(t) == TmContains(tm, t)

\* World::with_capacities(plugins, ..): TypeMap::new(plugins, 1_000)
PlInit ==
    /\ \E n \in 1..MaxBuckets : tm = TmNew(n, RegStorage)
    /\ \E d \in BOOLEAN, k \in BOOLEAN : tm_env = [debug |-> d, slack |-> k]
    /\ \E f \in [Types -> 0..MaxTypeId] :
            /\ \A a, b \in Types : a # b => f[a] # f[b]
            /\ tm_tid = f
    /\ tm_ins = [t \in Types |-> 0]
    /\ tm_dup = FALSE
    /\ tm_dtor = DtorIdle
    /\ pl = PlIdle

\* World::add_plugin::<P>(plugin):
\* if !self.plugins.contains::<P>() { plugin.load(self); self.plugins.insert(plugin) }
WorldAddPlugin(t) ==
    /\ tm.status = "ok"
    /\ IF ~TmContains(tm, t)
       THEN /\ tm' = TmInsert([tm EXCEPT !.resized = FALSE], t, 1, MaxResizes)
            /\ tm_ins' = [tm_ins EXCEPT ![t] = 1]
            /\ pl' = [pl EXCEPT !.added[t] = TRUE, !.loads[t] = @ + 1]
       ELSE /\ tm' = tm
            /\ tm_ins' = tm_ins
            /\ pl' = [pl EXCEPT !.added[t] = TRUE]
    /\ UNCHANGED <<tm_env, tm_tid, tm_dup, tm_dtor>>

\* ================================================================ StackVec
\* StackVec::<T, SIZE>::default(): stack is [None; SIZE], vec is empty
SvNew(size) ==
    [SIZE |-> size,
     stack |-> [i \in 0..(size - 1) |-> None],
     vec |-> <<>>,
     len |-> 0]

\* No iterator is alive.  An Iter or IterMut borrows the vector, so the next
\* call on the vector ends it; an IntoIter has consumed the vector.
SvNoIter == [kind |-> "none", progress |-> 0, out |-> <<>>, done |-> FALSE]
SvNoGet == [idx |-> -1, ret |-> None]

SvStart(size) ==
    [stackvec |-> SvNew(size),
     pushed |-> <<>>,
     get |-> SvNoGet,
     iter |-> SvNoIter,
     status |-> "ok"]

\* StackVec::push
SvPush(s, val) ==
    [(IF s.len < s.SIZE THEN [s EXCEPT !.stack[s.len] = val]
      ELSE [s EXCEPT !.vec = Append(@, val)])
        EXCEPT !.len = s.len + 1]

\* StackVec::get / get_mut: stack[idx] below SIZE, vec.get(idx) from SIZE on
SvGet(s, idx) ==
    IF idx < s.SIZE THEN s.stack[idx]
    ELSE IF idx < Len(s.vec) THEN s.vec[idx + 1]
    ELSE None

\* next() of Iter, IterMut and IntoIter: None at progress == len; else
\* stack[progress].unwrap() below SIZE and vec[progress] from SIZE on, where
\* the index expression panics when progress >= vec.len()
SvIterNext(x) ==
    LET s == x.stackvec
        progress == x.iter.progress
    IN  IF progress = s.len THEN [x EXCEPT !.iter.done = TRUE]
        ELSE IF progress < s.SIZE
             THEN IF s.stack[progress] = None THEN [x EXCEPT !.status = "panic"]
                  ELSE [x EXCEPT !.iter.progress = progress + 1,
                                 !.iter.out = Append(@, s.stack[progress])]
        ELSE IF progress < Len(s.vec)
             THEN [x EXCEPT !.iter.progress = progress + 1,
                            !.iter.out = Append(@, s.vec[progress + 1])]
        ELSE [x EXCEPT !.status = "panic"]

SvIdle == sv = SvStart(0)

SvInit == \E size \in 0..MaxStack : sv = SvStart(size)

StackVecPush(val) ==
    /\ sv.status = "ok" /\ sv.iter.kind # "into_iter"
    /\ sv.stackvec.len < MaxSvLen
    /\ sv' = [sv EXCEPT !.stackvec = SvPush(@, val),
                        !.pushed = Append(@, val),
                        !.get = SvNoGet,
                        !.iter = SvNoIter]

StackVecGet(idx) ==
    /\ sv.status = "ok" /\ sv.iter.kind # "into_iter"
    /\ sv' = [sv EXCEPT !.get = [idx |-> idx, ret |-> SvGet(sv.stackvec, idx)],
                        !.iter = SvNoIter]

\* iter(), iter_mut() or into_iter()
StackVecIter(kind) ==
    /\ sv.status = "ok" /\ sv.iter.kind # "into_iter"
    /\ sv' = [sv EXCEPT !.iter = [SvNoIter EXCEPT !.kind = kind], !.get = SvNoGet]

StackVecIterNext ==
    /\ sv.status = "ok" /\ sv.iter.kind # "none" /\ ~sv.iter.done
    /\ sv' = SvIterNext(sv)

\* ========================================================== specifications
UniqNext ==
    \/ \E key \in UniqKeys : UniqGet(key) /\ UNCHANGED <<tm_vars, av_vars, w_vars, sv_vars>>
    \/ \E key \in UniqKeys, v \in 1..MaxVal : UniqWrite(key, v) /\ UNCHANGED <<tm_vars, av_vars, w_vars, sv_vars>>

UniqInit == UqInit /\ TmIdle /\ AvIdle /\ WIdle /\ SvIdle

SpecUniq == UniqInit /\ [][UniqNext]_vars

TmNext ==
    \/ \E t \in Types, v \in TmVals : TypeMapInsert(t, v) /\ UNCHANGED <<uq_vars, av_vars, w_vars, sv_vars>>
    \/ \E t \in Types : TypeMapGet(t) /\ UNCHANGED <<uq_vars, av_vars, w_vars, sv_vars>>

TypeMapInit == TmInit /\ UqIdle /\ AvIdle /\ WIdle /\ SvIdle

\* A TypeMap that is filled and then dropped
TmDropNext ==
    \/ \E t \in Types, v \in TmVals :
         TypeMapInsertDtor(t, v) /\ UNCHANGED <<uq_vars, av_vars, w_vars, sv_vars>>
    \/ TypeMapDrop /\ UNCHANGED <<uq_vars, av_vars, w_vars, sv_vars>>

\* TypeMap::new(n, s) in either build and on either heap, the types hashed to
\* buckets in their own order
TmDropInit ==
    /\ \E n \in 0..MaxBuckets, s \in 0..MaxStorage : tm = TmNew(n, s)
    /\ \E d \in BOOLEAN, k \in BOOLEAN : tm_env = [debug |-> d, slack |-> k]
    /\ tm_tid = [t \in Types |-> t]
    /\ tm_ins = [t \in Types |-> 0]
    /\ tm_dup = FALSE
    /\ tm_dtor = DtorIdle
    /\ pl = PlIdle

TypeMapDropInit == TmDropInit /\ UqIdle /\ AvIdle /\ WIdle /\ SvIdle

SpecTypeMapDrop == TypeMapDropInit /\ [][TmDropNext]_vars

SpecTypeMap == TypeMapInit /\ [][TmNext]_vars

PluginsNext ==
    \E t \in Types : WorldAddPlugin(t) /\ UNCHANGED <<uq_vars, av_vars, w_vars, sv_vars>>

PluginsInit == PlInit /\ UqIdle /\ AvIdle /\ WIdle /\ SvIdle

SpecPlugins == PluginsInit /\ [][PluginsNext]_vars

StackVecNext ==
    \/ \E val \in ElemVals : StackVecPush(val) /\ UNCHANGED <<uq_vars, tm_vars, av_vars, w_vars>>
    \/ \E idx \in 0..(MaxSvLen - 1) : StackVecGet(idx) /\ UNCHANGED <<uq_vars, tm_vars, av_vars, w_vars>>
    \/ \E kind \in {"iter", "iter_mut", "into_iter"} :
         StackVecIter(kind) /\ UNCHANGED <<uq_vars, tm_vars, av_vars, w_vars>>
    \/ StackVecIterNext /\ UNCHANGED <<uq_vars, tm_vars, av_vars, w_vars>>

StackVecInit == SvInit /\ UqIdle /\ TmIdle /\ AvIdle /\ WIdle

SpecStackVec == StackVecInit /\ [][StackVecNext]_vars

ArenaNext ==
    \/ \E val \in ElemVals : ArenaPush(val) /\ UNCHANGED <<uq_vars, tm_vars, w_vars, dr, wh, sv_vars>>
    \/ \E val \in ElemVals : ArenaTryPush(val) /\ UNCHANGED <<uq_vars, tm_vars, w_vars, dr, wh, sv_vars>>
    \/ \E n \in 1..MaxElemSize : ArenaReserve(n) /\ UNCHANGED <<uq_vars, tm_vars, w_vars, dr, wh, sv_vars>>
    \/ \E idx \in 0..MaxReserve : ArenaRemove(idx) /\ UNCHANGED <<uq_vars, tm_vars, w_vars, dr, wh, sv_vars>>
    \/ ArenaClear /\ UNCHANGED <<uq_vars, tm_vars, w_vars, dr, wh, sv_vars>>
    \/ \E n \in 0..MaxReserve : ArenaShrinkTo(n) /\ UNCHANGED <<uq_vars, tm_vars, w_vars, dr, wh, sv_vars>>

ArenaInit == AvInit /\ UqIdle /\ TmIdle /\ WIdle /\ SvIdle

\* An ArenaVec that is used and then dropped
ArenaDropNext ==
    \/ ArenaNext
    \/ ArenaDropDecommit /\ UNCHANGED <<uq_vars, tm_vars, w_vars, dr, wh, sv_vars>>
    \/ ArenaDropDereserve /\ UNCHANGED <<uq_vars, tm_vars, w_vars, dr, wh, sv_vars>>

SpecArenaDrop == ArenaInit /\ [][ArenaDropNext]_vars

SpecArena == ArenaInit /\ [][ArenaNext]_vars

\* An ArenaVec that is edited at both ends and in the middle
ArenaEditNext ==
    \/ \E val \in ElemVals : ArenaPush(val) /\ UNCHANGED <<uq_vars, tm_vars, w_vars, dr, wh, sv_vars>>
    \/ ArenaPop /\ UNCHANGED <<uq_vars, tm_vars, w_vars, dr, wh, sv_vars>>
    \/ \E index \in 0..MaxReserve : ArenaSwapRemove(index) /\ UNCHANGED <<uq_vars, tm_vars, w_vars, dr, wh, sv_vars>>
    \/ \E idx \in 0..MaxReserve, val \in ElemVals :
         ArenaInsert(idx, val) /\ UNCHANGED <<uq_vars, tm_vars, w_vars, dr, wh, sv_vars>>
    \/ \E idx \in 0..MaxReserve, val \in ElemVals :
         ArenaTryInsert(idx, val) /\ UNCHANGED <<uq_vars, tm_vars, w_vars, dr, wh, sv_vars>>

SpecArenaEdit == ArenaInit /\ [][ArenaEditNext]_vars

\* An ArenaVec that is filled and drained; the Drain borrows the vector
\* mutably, so no other call runs while it is alive, and the record of a
\* dropped Drain is forgotten at the next call
ArenaDrainNext ==
    \/ \E val \in ElemVals :
         (~dr.active /\ ArenaPush(val) /\ dr' = DrIdle) /\ UNCHANGED <<uq_vars, tm_vars, w_vars, wh, sv_vars>>
    \/ \E idx \in 0..MaxReserve :
         (~dr.active /\ ArenaRemove(idx) /\ dr' = DrIdle) /\ UNCHANGED <<uq_vars, tm_vars, w_vars, wh, sv_vars>>
    \/ ArenaDrain /\ UNCHANGED <<uq_vars, tm_vars, w_vars, wh, sv_vars>>
    \/ DrainNext /\ UNCHANGED <<uq_vars, tm_vars, w_vars, wh, sv_vars>>
    \/ DrainDrop /\ UNCHANGED <<uq_vars, tm_vars, w_vars, wh, sv_vars>>

SpecArenaDrain == ArenaInit /\ [][ArenaDrainNext]_vars

WarehouseNext ==
    \/ WarehouseTakeInstance /\ UNCHANGED <<uq_vars, tm_vars, w_vars, dr, sv_vars>>
    \/ WarehouseGetInstance /\ UNCHANGED <<uq_vars, tm_vars, w_vars, dr, sv_vars>>
    \/ \E val \in ElemVals : WarehouseReturnInstance(val) /\ UNCHANGED <<uq_vars, tm_vars, w_vars, dr, sv_vars>>
    \/ \E val \in ElemVals : WarehouseValueDrop(val) /\ UNCHANGED <<uq_vars, tm_vars, w_vars, dr, sv_vars>>

WarehouseInit == WhInit /\ UqIdle /\ TmIdle /\ WIdle /\ SvIdle

SpecWarehouse == WarehouseInit /\ [][WarehouseNext]_vars

WorldNext ==
    \/ \E ty \in MsgTypes, h \in Handlers :
         WorldAddMsgHandler(ty, h) /\ UNCHANGED <<uq_vars, tm_vars, av_vars, sv_vars>>
    \/ \E ty \in MsgTypes : \E val \in MsgVals(ty) :
         WorldSendMsg(ty, val) /\ UNCHANGED <<uq_vars, tm_vars, av_vars, sv_vars>>
    \/ WorldApplyMsgs /\ UNCHANGED <<uq_vars, tm_vars, av_vars, sv_vars>>
    \/ \E ty \in MsgTypes : \E val \in MsgVals(ty) :
         WorldSendMsgNow(ty, val) /\ UNCHANGED <<uq_vars, tm_vars, av_vars, sv_vars>>

WorldInit == WInit /\ UqIdle /\ TmIdle /\ AvIdle /\ SvIdle

\* The message types of the frame-packing check: u64, u8 and the zero-size ()
FrameTypes == 0..MaxFrameType

\* Sends of every size, with and without handlers, and drains
WorldFramesNext ==
    \/ \E ty \in MsgTypes, h \in Handlers :
         WorldAddMsgHandler(ty, h) /\ UNCHANGED <<uq_vars, tm_vars, av_vars, sv_vars>>
    \/ \E ty \in FrameTypes : \E val \in MsgVals(ty) :
         WorldSendMsg(ty, val) /\ UNCHANGED <<uq_vars, tm_vars, av_vars, sv_vars>>
    \/ WorldApplyMsgs /\ UNCHANGED <<uq_vars, tm_vars, av_vars, sv_vars>>

SpecWorldFrames == WorldInit /\ [][WorldFramesNext]_vars

SpecWorld == WorldInit /\ [][WorldNext]_vars

\* A World whose messages are also sent by executables
WorldExecNext ==
    \/ \E ty \in MsgTypes, h \in Handlers :
         WorldAddMsgHandler(ty, h) /\ UNCHANGED <<uq_vars, tm_vars, av_vars, sv_vars>>
    \/ WorldApplyMsgs /\ UNCHANGED <<uq_vars, tm_vars, av_vars, sv_vars>>
    \/ \E msgs \in ExeMsgs : WorldExecute(msgs) /\ UNCHANGED <<uq_vars, tm_vars, av_vars, sv_vars>>
    \/ \E msgs \in ExeMsgs : WorldExecuteImmut(msgs) /\ UNCHANGED <<uq_vars, tm_vars, av_vars, sv_vars>>

SpecWorldExec == WorldInit /\ [][WorldExecNext]_vars

\* A TypeMap that is also cleared
TmClearNext ==
    \/ TmNext
    \/ TypeMapClear /\ UNCHANGED <<uq_vars, av_vars, w_vars, sv_vars>>

\* TypeMap::new(n, s), the types hashed to buckets in their own order
TmClearInit ==
    /\ \E n \in 0..MaxBuckets, s \in 0..MaxStorage : tm = TmNew(n, s)
    /\ \E d \in BOOLEAN : tm_env = [debug |-> d, slack |-> TRUE]
    /\ tm_tid = [t \in Types |-> t]
    /\ tm_ins = [t \in Types |-> 0]
    /\ tm_dup = FALSE
    /\ tm_dtor = DtorIdle
    /\ pl = PlIdle

TypeMapClearInit == TmClearInit /\ UqIdle /\ AvIdle /\ WIdle /\ SvIdle

SpecTypeMapClear == TypeMapClearInit /\ [][TmClearNext]_vars

RegNext ==
    \/ \E ty \in MsgTypes, h \in TmVals :
         RegAddMsgHandler(ty, h) /\ UNCHANGED <<uq_vars, av_vars, w_vars, sv_vars>>
    \/ \E ty \in MsgTypes : RegGetRaw(ty) /\ UNCHANGED <<uq_vars, av_vars, w_vars, sv_vars>>

RegistryInit == RegInit /\ UqIdle /\ AvIdle /\ WIdle /\ SvIdle

SpecRegistry == RegistryInit /\ [][RegNext]_vars

ParNext ==
    \/ \E ok \in BOOLEAN : ParSpawn(ok) /\ UNCHANGED <<uq_vars, tm_vars, av_vars, world, w_env, sv_vars>>
    \/ \E i \in ParIds, increment \in BOOLEAN, ok \in BOOLEAN :
         ParThread(i, increment, ok) /\ UNCHANGED <<uq_vars, tm_vars, av_vars, world, w_env, sv_vars>>
    \/ \E i \in ParIds : ParThreadSendBegin(i) /\ UNCHANGED <<uq_vars, tm_vars, av_vars, world, w_env, sv_vars>>
    \/ \E i \in ParIds, reload \in BOOLEAN :
         ParThreadSendEnd(i, reload) /\ UNCHANGED <<uq_vars, tm_vars, av_vars, world, w_env, sv_vars>>
    \/ \E i \in ParIds : ParThreadUniqWrite(i) /\ UNCHANGED <<uq_vars, tm_vars, av_vars, world, w_env, sv_vars>>
    \/ \E i \in ParIds : ParThreadUniqRead(i) /\ UNCHANGED <<uq_vars, tm_vars, av_vars, world, w_env, sv_vars>>
    \/ ParJoin /\ UNCHANGED <<uq_vars, tm_vars, av_vars, world, w_env, sv_vars>>
    \/ ParApply /\ UNCHANGED <<uq_vars, tm_vars, av_vars, world, w_env, sv_vars>>

ParallelInit ==
    /\ ParInit /\ world = WNew /\ w_env = [ub_checks |-> FALSE]
    /\ UqIdle /\ TmIdle /\ AvIdle /\ SvIdle

SpecParallel == ParallelInit /\ [][ParNext]_vars

C2_Overwrite ==
    [][\A t \in Types, v \in TmVals :
        (tm_env.slack /\ TmHas(tm, t) /\ TypeMapInsert(t, v)) =>
            /\ tm'.num = tm.num
            /\ TmGetVal(tm', t) = v
            /\ TmCount(tm', t) = 1]_vars

\* C3: while no type has been inserted twice, an insert that reallocates
\* leaves every value that was inserted and retrievable before it retrievable
\* under its type with the same bytes, at the same offset from the new
\* storage base.
C3_ResizeRoundTrip ==
    [][(tm'.resized /\ tm' # tm /\ ~tm_dup') =>
            \A u \in Types :
                (tm_ins[u] # 0 /\ TmLen(tm) > 0 /\ TmGet(tm, u).res = "Some"
                    /\ TmGetVal(tm, u) # Garbage) =>
                    /\ TmGet(tm', u).res = "Some"
                    /\ TmGetVal(tm', u) = TmGetVal(tm, u)
                    /\ TmGet(tm', u).ptr - tm'.base = TmGet(tm, u).ptr - tm.base]_vars

\* C3 witness: an insert has just reallocated a map that held at least two
\* other values, and every value is read back
C3_Witness ==
    /\ tm.status = "ok" /\ tm.resized /\ ~tm_dup /\ tm.num >= 3 /\ tm.base = HeapB
    /\ \A t \in Types : tm_ins[t] # 0 /\ TmGetVal(tm, t) = tm_ins[t]

\* C8: a lookup of a type that was never inserted returns None and does not abort
C8_LookupMiss ==
    \A t \in Types : (tm.status = "ok" /\ tm_ins[t] = 0) => TmGet(tm, t).res = "None"

\* C9: after inserts of distinct types into a map with at least one bucket,
\* get::<T>() returns the value inserted for T, for every inserted type T
C9_Collisions ==
    (tm.status = "ok" /\ ~tm_dup /\ TmLen(tm) >= 1) =>
        \A t \in Types : tm_ins[t] # 0 => TmGetVal(tm, t) = tm_ins[t]

\* C4: in every reachable state len * size_of::<T>() <= committed bytes <=
\* reserved_memory, and no push has written to memory that is not committed
C4_SizeInvariant ==
    /\ av.status \notin {"segv", "oob"}
    /\ av.len * av.size <= AvCommitted(av)
    /\ AvCommitted(av) <= av.reserved

\* C5: when the reservation cannot hold one more element, push panics and
\* try_push returns Err(OutOfMemoryAddresses), and len is unchanged
C5_ReservationExhausted ==
    (av_op.full /\ av_op.kind \in {"push", "try_push"}) =>
        /\ av_op.kind = "push" => av_op.res = "panic"
        /\ av_op.kind = "try_push" => av_op.res = "err"
        /\ av.len = av_op.len0

\* The calls a drain pass of the last apply_msgs made, as (type, value)
PassCalls(pass) ==
    LET of == SelectSeq(world.log, LAMBDA e : e.pass = pass)
    IN  [i \in DOMAIN of |-> <<of[i].ty, of[i].val>>]
\* The messages the last apply_msgs took out of the buffer whose type has a
\* handler, in the order of their send_msg calls
TakenHandled ==
    LET of == SelectSeq(world.taken, LAMBDA m : world.msg_handlers[m.ty] # NoHandler)
    IN  [i \in DOMAIN of |-> <<of[i].ty, of[i].val>>]

\* C6: the outermost drain pass of apply_msgs invokes the handlers in the
\* order of the send_msg calls, each with the value that was sent, for any
\* mix of message types
C6_MessageOrdering ==
    world.op = "apply_msgs" => PassCalls(0) = TakenHandled

\* C7: no message sent while apply_msgs is draining is handled before that
\* apply_msgs has returned, whatever the handlers do with the world
C7_DeferredDelivery ==
    (world.op = "apply_msgs" /\ world.status = "ok") =>
        \A i \in DOMAIN world.log : ~world.log[i].late

\* C11: a push or try_push that returns leaves the buffer base address, and
\* the address and the value of every element that was in the vector, unchanged
C11_AddressStability ==
    [][(av_op'.kind \in {"push", "try_push"} /\ av'.status = "ok") =>
          /\ av'.buffer = av.buffer
          /\ \A i \in 0..(av.len - 1) :
                /\ AvAddr(av', i) = AvAddr(av, i)
                /\ AvGet(av', i) = AvGet(av, i)]_vars

\* Three elements pushed, the last push having committed a second page
C11_Witness ==
    /\ av.status = "ok"
    /\ av_op.kind = "push" /\ av_op.res = "ok"
    /\ av.len >= 3
    /\ Cardinality(av.pages) >= 2

\* C12: a drain whose buffer holds a frame without a registered handler does
\* not abort, invokes no handler for that frame, and still delivers every
\* other frame of the buffer to its handler, in order and with its own value
C12_UndeliveredSafety ==
    (/\ world.op = "apply_msgs"
     /\ world.status # "overflow"
     /\ \E i \in DOMAIN world.taken : world.msg_handlers[world.taken[i].ty] = NoHandler) =>
        /\ world.status = "ok"
        /\ PassCalls(0) = TakenHandled

\* C13: a message of type M is dispatched to the handler most recently
\* registered for M, for any registered handler types and any order of
\* registrations
C13_HandlerDispatch ==
    tm.status = "ok" =>
        \A ty \in MsgTypes :
            tm_ins[TagOf(ty)] # 0 => RegHandler(ty) = tm_ins[TagOf(ty)]

\* C14: an insert that finds a non-empty map full reallocates it to exactly
\* twice the buckets and exactly twice the storage it had before the insert
C14_GrowthDoubles ==
    [][(tm'.resized /\ tm' # tm /\ tm'.status = "ok" /\ tm.num > 0) =>
          /\ TmLen(tm') = 2 * TmLen(tm)
          /\ tm'.cap = 2 * tm.cap]_vars

\* C15: clear() on a map with buckets leaves num_entries() = 0 and
\* used_storage() = 0, keeps available_entries() and storage_capacity(), and
\* afterwards get::<T>() is None and contains::<T>() is false for every T
C15_Clear ==
    [][(TypeMapClear /\ TmLen(tm) > 0) =>
          /\ tm'.num = 0 /\ tm'.used = 0
          /\ TmLen(tm') = TmLen(tm) /\ tm'.cap = tm.cap
          /\ \A t \in Types : TmGet(tm', t).res = "None" /\ ~TmHas(tm', t)]_vars

\* C16: every insert terminates with the value stored, from every reachable
\* state: the grow-and-retry recursion ends and the search for an empty
\* bucket finds one
C16_InsertSucceeds ==
    [][\A t \in Types, v \in TmVals :
          TypeMapInsert(t, v) => (tm'.status = "ok" /\ TmHas(tm', t))]_vars

\* C17: a push onto a vector that already holds an element and whose
\* reservation has room for one more stores the value: len grows by one,
\* get(len - 1) is the value pushed and get(len) is None
C17_PushGet ==
    (av_op.kind = "push" /\ ~av_op.full /\ av_op.len0 >= 1) =>
        /\ av_op.res = "ok"
        /\ av.len = av_op.len0 + 1
        /\ AvGet(av, av_op.len0) = av_op.val
        /\ AvGet(av, av.len) = None

\* C18: remove(i) with i < len returns the element at i, decreases len by one,
\* keeps the elements below i, moves every element above i down by one and
\* keeps buffer, capacity, reservation and committed pages; remove(i) with
\* i >= len returns None and changes nothing
C18_Remove ==
    [][\A idx \in 0..MaxReserve :
          ArenaRemove(idx) =>
            IF idx < av.len
            THEN /\ av_op'.ret = AvGet(av, idx)
                 /\ av'.status = "ok"
                 /\ av'.len = av.len - 1
                 /\ \A j \in 0..(idx - 1) : AvGet(av', j) = AvGet(av, j)
                 /\ \A j \in (idx + 1)..(av.len - 1) : AvGet(av', j - 1) = AvGet(av, j)
                 /\ av'.buffer = av.buffer /\ av'.capacity = av.capacity
                 /\ av'.reserved = av.reserved /\ av'.pages = av.pages
            ELSE av_op'.ret = None /\ av' = av]_vars

\* An element was removed from a vector of at least three, and the element
\* that followed it is now in its place
C18_Witness ==
    /\ av.status = "ok"
    /\ av_op.kind = "remove" /\ av_op.ret # None
    /\ av_op.len0 >= 3 /\ av.len = av_op.len0 - 1
    /\ AvGet(av, 0) # av_op.ret

\* C19: clear() sets len to 0 and keeps capacity, reservation, buffer and the
\* committed pages; the push that follows a clear of a vector with capacity
\* stores its value at index 0 and commits nothing
C19_Clear ==
    [][/\ ArenaClear =>
            /\ av'.len = 0
            /\ av'.capacity = av.capacity /\ av'.reserved = av.reserved
            /\ av'.buffer = av.buffer /\ av'.pages = av.pages
       /\ (av_op.kind = "clear" /\ av.capacity >= 1 /\ av_op'.kind = "push") =>
            /\ av'.status = "ok"
            /\ av'.len = 1 /\ AvGet(av', 0) = av_op'.val
            /\ av'.pages = av.pages]_vars

\* C20: the world's state changes, and a mutation counts as applied, only when
\* every spawned thread has been joined, only in a step of the calling thread,
\* and what is applied is the mutation built by the next executable of the
\* tuple, in tuple order
C20_ApplyAfterJoin ==
    [][(par'.state # par.state \/ par'.applied # par.applied) =>
          LET k == Len(par.applied) + 1
          IN  /\ \A i \in 1..par.n : par.th[i] = "joined"
              /\ par'.cur = Main
              /\ par'.applied = Append(par.applied, k)
              /\ par'.state = MutApply(par.handle[k], par.state)]_vars

\* A call of three executables has returned, and its mutations, some of which
\* increment the counter, have been applied
C20_Witness ==
    /\ par.pc = "done" /\ par.n = 3 /\ par.applied = <<1, 2, 3>>
    /\ par.handle[1].increment /\ ~par.handle[2].increment /\ par.handle[3].increment
    /\ par.state = par.handle[1].count + 2

\* C21: while threads of a parallel execution run, the shared stores (the
\* message buffer, the Uniq states) are written by no thread: they change only
\* in a step of the calling thread, taken when no spawned thread is running
C21_SingleWriter ==
    [][(par'.msg_buffer # par.msg_buffer \/ par'.states # par.states) =>
          /\ par'.cur = Main
          /\ \A i \in 1..par.n : par.th[i] # "running"]_vars

C23_DropOnce ==
    tm.status = "dropped" =>
        /\ tm_dtor.bad = 0
        /\ \A t \in Types : tm_dtor.run[t] = tm_dtor.ins[t]

\* The last n messages of a list of sent messages, as (type, value) pairs
LastSent(sent, n) ==
    [i \in 1..n |-> [ty |-> sent[Len(sent) - n + i].ty, val |-> sent[Len(sent) - n + i].val]]

\* C24: when execute(e) has returned, the messages e sent were taken out of
\* the buffer and each one whose type has a handler was handed to it, in
\* order and with its value; when execute_immut(e) has returned, no handler
\* has been called and the messages e sent are the last ones pending
C24_ExecuteApplies ==
    /\ (/\ world.op = "execute" /\ world.status # "overflow"
        /\ \A i \in DOMAIN world.exe : world.msg_handlers[world.exe[i].ty] # NoHandler) =>
          /\ world.status = "ok"
          /\ Len(world.taken) >= Len(world.exe)
          /\ LastSent(world.taken, Len(world.exe)) = world.exe
          /\ PassCalls(0) = TakenHandled
    /\ world.op = "execute_immut" =>
          /\ world.status = "ok"
          /\ world.log = <<>>
          /\ Len(world.pending) >= Len(world.exe)
          /\ LastSent(world.pending, Len(world.exe)) = world.exe

\* C25: a new ArenaVec has nothing committed; every commit (a growth of
\* capacity from c to c', which commits the bytes c..c') lies inside the
\* reservation; the drop first decommits, over a range that lies inside the
\* reservation and leaves no page committed, and only then releases the range
C25_Lifecycle ==
    /\ av.pages = {}
    /\ [][/\ av'.capacity > av.capacity => av'.capacity <= av.reserved
          /\ ArenaDropDecommit => (av.capacity <= av.reserved /\ av'.pages = {})
          /\ av'.status = "dropped" => av.status \in {"decommitted", "dropped"}]_vars

\* C26: a take (take_instance, get_instance) from a warehouse that holds an
\* instance hands out the stored instance at the front and lowers the stored
\* count by one; from an empty warehouse it hands out a default instance and
\* the count stays 0.  A return (return_instance, the drop of a
\* WarehouseValue) stores the instance reset, and the count rises by one.
C26_Reuse ==
    [][/\ av_op'.kind \in {"take_instance", "get_instance"} =>
            IF av.len >= 1
            THEN /\ av'.len = av.len - 1
                 /\ av_op'.ret = AvGet(av, 0) /\ wh'.ret = AvGet(av, 0)
            ELSE /\ av'.len = 0
                 /\ av_op'.ret = None /\ wh'.ret = DefaultInstance
       /\ av_op'.kind \in {"return_instance", "drop_value"} =>
            /\ av'.status = "ok"
            /\ av'.len = av.len + 1
            /\ AvGet(av', av.len) = DefaultInstance]_vars

\* C27: what the Drain has yielded is the front of the elements the vector
\* held when drain() was called, in index order from index 0, and next
\* returns None once all of them are out; the step that drops the Drain
\* leaves len = 0 whatever the progress, with capacity, base address and
\* committed pages unchanged.
C27_Drain ==
    [][/\ (dr.active \/ dr'.active) =>
            /\ Len(dr'.out) = dr'.progress /\ dr'.progress <= Len(dr'.former)
            /\ dr'.out = SubSeq(dr'.former, 1, dr'.progress)
       /\ (av_op'.kind = "drain_next" /\ dr.progress = Len(dr.former)) =>
            (av_op'.ret = None /\ dr'.out = dr.out)
       /\ (dr.active /\ ~dr'.active) =>
            /\ av'.len = 0 /\ av'.status = "ok"
            /\ av'.capacity = av.capacity /\ av'.buffer = av.buffer
            /\ av'.reserved = av.reserved /\ av'.pages = av.pages]_vars

\* A Drain over three elements was dropped after it yielded one of them
C27_Witness ==
    /\ av_op.kind = "drain_drop" /\ ~dr.active
    /\ Len(dr.former) = 3 /\ dr.out = <<dr.former[1]>>
    /\ dr.former[1] # dr.former[2]
    /\ av.len = 0 /\ av.capacity > 0

\* C28: in every state of a usable map, the walk along the collision_slot
\* links from any occupied bucket visits no bucket twice, follows only links
\* to occupied buckets of the bucket array and ends at a bucket without a
\* link; and every occupied bucket is visited exactly once by the walk from
\* the home bucket (TypeId mod bucket count) of the type it stores.
C28_ChainInvariant ==
    tm.status = "ok" =>
        /\ \A h \in DOMAIN tm.entries :
              LET c == TmChain(tm.entries, h, TmLen(tm)) IN
              /\ \A j, k \in DOMAIN c : j # k => c[j] # c[k]
              /\ \A k \in DOMAIN c :
                    LET s == tm.entries[c[k]].slot IN
                    IF k = Len(c) THEN s = -1
                    ELSE s \in DOMAIN tm.entries /\ tm.entries[s].some /\ s = c[k + 1]
        /\ \A i \in DOMAIN tm.entries :
              tm.entries[i].some =>
                LET c == TmChain(tm.entries, tm_tid[tm.entries[i].ty] % TmLen(tm), TmLen(tm))
                IN  Cardinality({k \in DOMAIN c : c[k] = i}) = 1

\* C28 witness: three buckets hang on one chain, and the bucket at its end
\* is not the home bucket of the type it stores
C28_Witness ==
    /\ tm.status = "ok" /\ tm.num >= 3
    /\ \E h \in DOMAIN tm.entries :
          LET c == TmChain(tm.entries, h, TmLen(tm)) IN
          /\ Len(c) = 3
          /\ tm_tid[tm.entries[c[3]].ty] % TmLen(tm) # c[3]

C30_StorageBounds ==
    tm.status = "ok" =>
        /\ tm.used <= tm.cap
        /\ \A i \in DOMAIN tm.entries :
              tm.entries[i].some =>
                LET off == tm.entries[i].ptr - tm.base
                    t == tm.entries[i].ty
                IN  /\ off >= 0
                    /\ off % TypeAlign(t) = 0
                    /\ off + TypeSize(t) <= tm.cap
                    /\ \A j \in DOMAIN tm.entries :
                          (j # i /\ tm.entries[j].some) =>
                            LET offj == tm.entries[j].ptr - tm.base IN
                            \/ offj + TypeSize(tm.entries[j].ty) <= off
                            \/ off + TypeSize(t) <= offj

\* How many frames of type ty with value val the drain passes of the last
\* call handed to a handler, and how many messages of that type and value the
\* passes took out of the buffer
Handled(ty, val) ==
    Cardinality({i \in DOMAIN world.log :
        world.log[i].pass >= 0 /\ world.log[i].ty = ty /\ world.log[i].val = val})
Drained(ty, val) ==
    Cardinality({i \in DOMAIN world.drained :
        world.drained[i].ty = ty /\ world.drained[i].val = val})

\* C31: when a call has returned, every message that a drain pass of the call
\* took out of the buffer (sent before the call or by a handler during it) and
\* whose type has a handler was handed to a handler exactly once, no message
\* without a handler was handed to one, and a call that found the buffer
\* empty invoked no handler from it.
C31_ExactlyOnce ==
    world.status # "overflow" =>
        /\ world.status = "ok"
        /\ \A ty \in MsgTypes, val \in 0..MaxMsgVal :
              Handled(ty, val) = IF world.msg_handlers[ty] # NoHandler
                                 THEN Drained(ty, val) ELSE 0
        /\ world.drained = <<>> =>
              \A i \in DOMAIN world.log : world.log[i].pass < 0

\* The offset at which the frame of the i-th pending message starts
RECURSIVE FrameStart(_, _)
FrameStart(sent, i) ==
    IF i <= 1 THEN 0 ELSE FrameStart(sent, i - 1) + HeaderSize + MsgSize(sent[i - 1].ty)

\* C32: whenever a call has returned, msg_buffer is the concatenation of one
\* frame [tag][payload length][payload] per pending message, in send order:
\* its length is the sum of header size plus payload size, the walk by the
\* length prefixes visits exactly the starts of the frames and ends exactly at
\* the end of the buffer, and each frame holds the tag, size and bytes of its
\* message, zero-size payloads included.
C32_FramePacking ==
    world.status = "ok" =>
        LET sent == world.pending
            buffer == world.msg_buffer
            n == Len(sent)
        IN  /\ Len(buffer) = FrameStart(sent, n + 1)
            /\ n > 0 =>
                  /\ FrameWalk(buffer, 0).starts = [i \in 1..n |-> FrameStart(sent, i)]
                  /\ FrameWalk(buffer, 0).end = Len(buffer)
            /\ \A i \in 1..n :
                  LET off == FrameStart(sent, i) IN
                  /\ off + HeaderSize + MsgSize(sent[i].ty) <= Len(buffer)
                  /\ SubSeq(buffer, off + 1, off + TagSize) = LeBytes(TagOf(sent[i].ty), TagSize)
                  /\ FromLe(SubSeq(buffer, off + TagSize + 1, off + HeaderSize)) = MsgSize(sent[i].ty)
                  /\ SubSeq(buffer, off + HeaderSize + 1, off + HeaderSize + MsgSize(sent[i].ty))
                        = MsgBytes(sent[i].ty, sent[i].val)

\* C32 witness: three frames are queued, a zero-size one between a u8 and a
\* u64
C32_Witness ==
    /\ world.status = "ok" /\ world.op = "send_msg"
    /\ Len(world.pending) = 3
    /\ MsgSize(world.pending[1].ty) = 1
    /\ MsgSize(world.pending[2].ty) = 0
    /\ MsgSize(world.pending[3].ty) = 8
    /\ Len(world.msg_buffer) = 3 * HeaderSize + 9

\* C33: after any sequence of add_plugin calls, Plugin::load has run once
\* for every plugin type that add_plugin was called with and for no other,
\* and has_plugin::<P>() is true exactly for the types add_plugin was called
\* with.
C33_PluginLoadedOnce ==
    /\ tm.status = "ok"
    /\ \A t \in Types :
          /\ pl.loads[t] = IF pl.added[t] THEN 1 ELSE 0
          /\ HasPlugin(t) = pl.added[t]

C35_GrowthPolicy ==
    [][(/\ av_op'.kind \in {"push", "try_push"}
        /\ av.len + 1 > av.capacity
        /\ av_op'.res \notin {"panic", "err"}) =>
          LET used == av.size * av.len
              amount == page_align(IF used = 0 THEN av.size
                                   ELSE IF used * 2 < av.reserved THEN used
                                   ELSE av.reserved - used)
              end == AvCommitted(av)
          IN  /\ AvCommitted(av') = end + amount
              /\ av'.pages = av.pages \cup PagesOf(end, end + amount)
              /\ end + amount <= av.reserved]_vars

\* C36: pop on a non-empty vector returns the element of index len - 1,
\* lowers len by one and leaves the elements below unchanged; pop on an empty
\* vector returns None and changes nothing; swap_remove(len - 1) returns the
\* element of index len - 1 as well.
C36_Pop ==
    [][/\ av_op'.kind = "pop" =>
            IF av.len >= 1
            THEN /\ av'.status = "ok"
                 /\ av_op'.ret = AvGet(av, av.len - 1)
                 /\ av'.len = av.len - 1
                 /\ \A i \in 0..(av.len - 2) : AvGet(av', i) = AvGet(av, i)
            ELSE av_op'.ret = None /\ av' = av
       /\ (av.len >= 1 /\ ArenaSwapRemove(av.len - 1)) =>
            /\ av'.status = "ok"
            /\ av_op'.ret = AvGet(av, av.len - 1)]_vars

\* C37: insert(i, e) and try_insert(i, e) with i <= len, when they return
\* normally, raise len by one, put e at index i, leave the elements below i
\* unchanged and move each element of index j >= i to index j + 1;
\* try_insert with i > len returns Err(IndexOutOfBounds) and changes nothing.
C37_Insert ==
    [][\A idx \in 0..MaxReserve, e \in ElemVals :
          /\ ((ArenaInsert(idx, e) \/ ArenaTryInsert(idx, e)) /\ idx <= av.len /\ av_op'.res \in {"ok", "none"}) =>
                /\ av'.len = av.len + 1
                /\ AvGet(av', idx) = e
                /\ \A j \in 0..(av.len - 1) :
                      AvGet(av', IF j < idx THEN j ELSE j + 1) = AvGet(av, j)
          /\ (ArenaTryInsert(idx, e) /\ idx > av.len) =>
                /\ av_op'.res = "index_err"
                /\ av' = av]_vars

\* The messages of sent whose type has a handler, as (type, value)
WithHandler(sent) ==
    LET of == SelectSeq(sent, LAMBDA m : world.msg_handlers[m.ty] # NoHandler)
    IN  [i \in DOMAIN of |-> <<of[i].ty, of[i].val>>]

\* The calls of the log that an outermost drain pass made for a message sent
\* outside every drain, as (type, value)
DrainCalls(log) ==
    LET of == SelectSeq(log, LAMBDA e : e.pass = 0 /\ ~e.late)
    IN  [i \in DOMAIN of |-> <<of[i].ty, of[i].val>>]

\* C38: send_msg_now(m) returns; the first handler call it made is the one
\* for m, when m's type has a handler; the messages that were queued before
\* the call and have a handler were then handed to their handlers, in send
\* order and ahead of what m's handler sent; and what is pending on return
\* was sent by a handler during a drain.
C38_SendMsgNow ==
    [][\A ty \in MsgTypes, val \in 0..MaxMsgVal :
          LET r == send_msg_now(WStart(world), ty, val, FALSE, MaxDepth)
              queued == WithHandler(world.pending)
          IN  (WorldSendMsgNow(ty, val) /\ r.status # "overflow") =>
                /\ r.status = "ok"
                /\ world.msg_handlers[ty] # NoHandler =>
                      /\ r.log # <<>>
                      /\ r.log[1] = [ty |-> ty, val |-> val, late |-> FALSE, pass |-> -1]
                /\ Len(DrainCalls(r.log)) >= Len(queued)
                /\ SubSeq(DrainCalls(r.log), 1, Len(queued)) = queued
                /\ \A i \in DOMAIN r.pending : r.pending[i].late]_vars

\* C39: after n pushes, with n <= SIZE or n > SIZE, len() is n, get(i) returns
\* the i-th pushed value for every i < n, and each of iter(), iter_mut() and
\* into_iter() yields the pushed values in push order, all n of them, and
\* then ends.
C39_StackVec ==
    /\ sv.status = "ok"
    /\ sv.stackvec.len = Len(sv.pushed)
    /\ (sv.get.idx >= 0 /\ sv.get.idx < Len(sv.pushed)) =>
          sv.get.ret = sv.pushed[sv.get.idx + 1]
    /\ Len(sv.iter.out) <= Len(sv.pushed)
    /\ sv.iter.out = SubSeq(sv.pushed, 1, Len(sv.iter.out))
    /\ sv.iter.done => sv.iter.out = sv.pushed

====
